---- MODULE Spec2Model ----
(***************************************************************************)
(* Delivery analytics backend: the bulk import entry points                *)
(* (import_shipments, import_events, import_deliveries), the delivery      *)
(* create/update handlers and the store they write through the Supabase    *)
(* client.  One request is in flight at a time; every store call can fail. *)
(***************************************************************************)
EXTENDS Integers, Sequences, FiniteSets, TLC

\* ---------------------------------------------------------------- bounds
MaxRows == 4        \* rows and records the requests of one behaviour submit
MaxCalls == 2       \* requests served in one behaviour
MaxCount == 2       \* largest loaded/delivered count a request carries
BATCH_SIZE == 2     \* chunk length (500 and 1000 in the source, scaled down)
ERROR_CAP == 2      \* errors a summary lists (10 in the source, scaled down)
MaxRacingRows == 2  \* records in the body of an import that runs beside another
MaxRivalRows == 1   \* records in the body of that other import
MaxFacts == 3       \* deliveries in the store the analytics read
MaxMinDeliveries == 2 \* largest min_deliveries a caller passes
MaxLimit == 6       \* largest limit a top-couriers caller passes (50 in the source)
FixtureSize == 5    \* couriers in the courier-performance fixture

\* ---------------------------------------------------------------- constants
FullTopLimit == 10  \* get_full_analytics asks for the top 10 couriers

\* ---------------------------------------------------------------- text
\* A Python str is a sequence of one-character strings.
RECURSIVE LStrip(_)
LStrip(s) ==
    IF s # <<>> /\ Head(s) = " " THEN LStrip(Tail(s)) ELSE s

RECURSIVE RStrip(_)
RStrip(s) ==
    IF s # <<>> /\ s[Len(s)] = " " THEN RStrip(SubSeq(s, 1, Len(s) - 1)) ELSE s

\* str.strip()
Strip(s) == RStrip(LStrip(s))

LowerChar(c) ==
    CASE c = "A" -> "a"
      [] c = "B" -> "b"
      [] c = "N" -> "n"
      [] OTHER -> c

\* str.lower()
Lower(s) == [i \in 1..Len(s) |-> LowerChar(s[i])]

\* A spreadsheet cell: a missing value (pandas NaN) or a text.
NaN == [nan |-> TRUE, text |-> <<>>]
Txt(s) == [nan |-> FALSE, text |-> s]

\* str(value): str(NaN) is 'nan'.
PyStr(cell) == IF cell.nan THEN <<"n", "a", "n">> ELSE cell.text

\* pd.isna(value) or value == ""
IsMissing(cell) == cell.nan \/ cell.text = <<>>

\* parse_float: missing -> 0.0; float(clean_str), ValueError -> 0.0.
\* The value is [inf, n]: float('inf') parses and is not finite.
parse_float(cell) ==
    IF IsMissing(cell) THEN [inf |-> FALSE, n |-> 0]
    ELSE LET clean_str == Strip(cell.text) IN
         CASE clean_str = <<"1">> -> [inf |-> FALSE, n |-> 1]
           [] clean_str = <<"i", "n", "f">> -> [inf |-> TRUE, n |-> 0]
           [] OTHER -> [inf |-> FALSE, n |-> 0]

\* parse_date: missing -> None; strptime, then pd.to_datetime, else None.
\* <<"d">> stands for a well-formed date text.
parse_date(cell) ==
    IF IsMissing(cell) THEN [none |-> TRUE]
    ELSE IF Strip(cell.text) = <<"d">> THEN [none |-> FALSE] ELSE [none |-> TRUE]

\* ---------------------------------------------------------------- field parsers
\* The parsers once more, with the control flow of their bodies: every
\* library call either returns or raises, and an except clause catches what
\* it names.  A value is [type, text]; type is the Python type of the cell.
Val(type, text) == [type |-> type, text |-> text]

\* Texts a cell can carry.
NumberTexts == { <<"1">>, <<"1", ",", "5">>, <<"1", ".", "5">>, <<"i", "n", "f">> }
DateTexts == { <<"3", "1", ".", "1", "2", ".", "2", "0", "2", "4">> }
IsoDateTexts == { <<"2", "0", "2", "4", "-", "1", "2", "-", "3", "1">> }
TimeTexts == { <<"1", "0", ":", "2", "4">> }
OtherTexts ==
    { <<>>, <<" ">>, <<"a", "b", "c">>, <<"1", ".", "5", ".">>,
      <<"2", "5", ":", "9", "9">>, <<"1", "0", ":", "2", "4", ":", "0", "0">>,
      <<"3", "2", ".", "1", "3", ".", "2", "0", "2", "4">> }
Suffixes == { <<>>, <<" ", "E", "U", "R">>, <<"%">>, <<" ">> }

\* The values a cell of a decoded sheet can hold.
CellValues ==
    { Val("NaN", <<>>), Val("NaT", <<>>), Val("None", <<>>),
      Val("float", <<"1", ".", "5">>), Val("int", <<"1">>), Val("bool", <<"T", "r", "u", "e">>),
      Val("datetime", <<"2", "0", "2", "4", "-", "1", "2", "-", "3", "1", " ", "1", "0", ":", "2", "4", ":", "0", "0">>),
      Val("date", <<"2", "0", "2", "4", "-", "1", "2", "-", "3", "1">>),
      Val("time", <<"1", "0", ":", "2", "4", ":", "0", "0">>) }
    \cup { Val("str", pre \o t \o suf) :
             pre \in { <<>>, <<" ">> },
             t \in NumberTexts \cup DateTexts \cup IsoDateTexts \cup TimeTexts \cup OtherTexts,
             suf \in Suffixes }

\* What a call gives: a value <<kind, text>> or an exception.
Returns(v) == [raised |-> FALSE, value |-> v]
Raises(exc) == [raised |-> TRUE, exc |-> exc]
NoneValue == <<"None", <<>>>>
ZeroFloat == <<"float", <<"0", ".", "0">>>>

\* s.startswith(pat)
StartsWith(s, pat) == Len(s) >= Len(pat) /\ SubSeq(s, 1, Len(pat)) = pat

\* s.replace(pat, rep) for a non-empty pat
RECURSIVE Replace(_, _, _)
Replace(s, pat, rep) ==
    IF s = <<>> THEN <<>>
    ELSE IF StartsWith(s, pat)
    THEN rep \o Replace(SubSeq(s, Len(pat) + 1, Len(s)), pat, rep)
    ELSE <<Head(s)>> \o Replace(Tail(s), pat, rep)

\* pd.isna(value) or value == ""
IsNaOrEmpty(v) == v.type \in {"NaN", "NaT", "None"} \/ (v.type = "str" /\ v.text = <<>>)

Digits == { "0", "1", "2", "3", "4", "5", "9" }

\* float(s) for a str: a decimal literal, 'inf' or 'nan' parses, anything
\* else raises ValueError.
FloatOfStr(s) ==
    LET t == Strip(s)
        dots == { i \in 1..Len(t) : t[i] = "." }
    IN IF \/ t \in { <<"i", "n", "f">>, <<"n", "a", "n">> }
          \/ /\ t # <<>>
             /\ \A i \in 1..Len(t) : t[i] \in Digits \cup {"."}
             /\ Cardinality(dots) <= 1
             /\ Cardinality(dots) < Len(t)
       THEN Returns(<<"float", t>>)
       ELSE Raises("ValueError")

\* Faulty parse_float: the try around float(clean_str) is missing.
ParseFloatUnguarded(v) ==
    IF IsNaOrEmpty(v) THEN Returns(ZeroFloat)
    ELSE IF v.type \in {"float", "int", "bool"} THEN Returns(<<"float", v.text>>)
    ELSE FloatOfStr(Strip(Replace(Replace(Replace(v.text, <<",">>, <<".">>),
                                              <<" ", "E", "U", "R">>, <<>>), <<"%">>, <<>>)))

\* parse_float(value)
ParseFloatCall(v) ==
    IF IsNaOrEmpty(v) THEN Returns(ZeroFloat)
    ELSE IF v.type \in {"float", "int", "bool"} THEN Returns(<<"float", v.text>>)
    ELSE LET clean_str == Strip(Replace(Replace(Replace(v.text, <<",">>, <<".">>),
                                                    <<" ", "E", "U", "R">>, <<>>), <<"%">>, <<>>))
             tried_float == FloatOfStr(clean_str)
         IN IF tried_float.raised /\ tried_float.exc = "ValueError"
            THEN Returns(ZeroFloat)
            ELSE tried_float

\* datetime.strptime(s, "%d.%m.%Y"): a text in that format parses, anything
\* else raises ValueError.
Strptime(s, texts) == IF s \in texts THEN Returns(<<"parsed", s>>) ELSE Raises("ValueError")

\* pd.to_datetime(value).date(): dates in either notation and numbers are
\* converted; other texts raise a ValueError subclass, a time raises TypeError.
ToDatetime(v) ==
    CASE v.type \in {"float", "int"} -> Returns(<<"date", v.text>>)
      [] v.type \in {"time", "bool"} -> Raises("TypeError")
      [] v.type = "str" /\ Strip(v.text) \in DateTexts \cup IsoDateTexts ->
             Returns(<<"date", Strip(v.text)>>)
      [] OTHER -> Raises("ValueError")

\* parse_date(value, fmt)
ParseDateCall(v) ==
    IF IsNaOrEmpty(v) THEN Returns(NoneValue)
    ELSE IF v.type \in {"datetime", "date"} THEN Returns(<<"date", v.text>>)
    ELSE LET primary == Strptime(Strip(v.text), DateTexts) IN
         IF ~primary.raised THEN Returns(<<"date", primary.value[2]>>)
         ELSE IF primary.exc # "ValueError" THEN primary
         ELSE LET fallback == ToDatetime(v) IN
              IF fallback.raised THEN Returns(NoneValue) ELSE fallback

\* parse_time(value)
ParseTimeCall(v) ==
    IF IsNaOrEmpty(v) THEN Returns(NoneValue)
    ELSE LET val_str == Strip(v.text) IN
         IF Len(val_str) = 5
         THEN LET parsed == Strptime(val_str, TimeTexts) IN
              IF parsed.raised THEN Returns(NoneValue) ELSE Returns(<<"time", val_str>>)
         ELSE Returns(NoneValue)

\* ---------------------------------------------------------------- rows
\* One sheet row: the 'Номер Shipment' cell and one further cell (the places
\* count of a shipment row, the report date of an event row).
ShipmentRows ==
    { [num |-> Txt(<<"S">>), aux |-> Txt(<<"1">>)],
      [num |-> Txt(<<" ", "T">>), aux |-> NaN],
      [num |-> NaN, aux |-> Txt(<<"1">>)],
      [num |-> Txt(<<" ">>), aux |-> Txt(<<"1">>)],
      [num |-> Txt(<<"S">>), aux |-> Txt(<<"i", "n", "f">>)] }

EventRows ==
    { [num |-> Txt(<<"S">>), aux |-> Txt(<<"d">>)],
      [num |-> Txt(<<" ", "T">>), aux |-> Txt(<<"d">>)],
      [num |-> NaN, aux |-> Txt(<<"d">>)],
      [num |-> Txt(<<"n", "a", "n", " ">>), aux |-> NaN],
      [num |-> Txt(<<"S">>), aux |-> NaN] }

\* Sheets of at most m rows.
Sheets(rows, m) == UNION { [1..n -> rows] : n \in 0..m }

\* Faulty skip test: the 'nan' comparison is left out, so the text of a
\* missing cell passes for a shipment number.
IsKeylessNoNan(row) == Strip(PyStr(row.num)) = <<>>

\* The skip test of both mappers: empty or 'nan' after trimming.
shipment_num(row) == Strip(PyStr(row.num))
IsKeyless(row) == shipment_num(row) = <<>> \/ shipment_num(row) = <<"n", "a", "n">>

\* Body of the row loop of import_shipments: skip, record or exception.
MapShipmentRow(row) ==
    IF IsKeyless(row) THEN [tag |-> "skip"]
    ELSE IF parse_float(row.aux).inf THEN [tag |-> "error"]
    ELSE [tag |-> "ok", rec |-> [shipment_number |-> Strip(shipment_num(row))]]

\* Body of the row loop of import_events: report_date is a required date.
MapEventRow(row) ==
    IF IsKeyless(row) THEN [tag |-> "skip"]
    ELSE IF parse_date(row.aux).none THEN [tag |-> "error"]
    ELSE [tag |-> "ok", rec |-> [shipment_number |-> Strip(shipment_num(row))]]

\* Records of an import_deliveries request body (DeliveryImport); the
\* delivery date is the same for all of them and is left out.
DeliveryRecords ==
    { [courier_name |-> <<"a">>, zone_name |-> <<"n">>,
       loaded_count |-> MaxCount, delivered_count |-> 1],
      [courier_name |-> <<" ", "A">>, zone_name |-> <<"N">>,
       loaded_count |-> 1, delivered_count |-> 1],
      [courier_name |-> <<"b">>, zone_name |-> <<"n", " ">>,
       loaded_count |-> 1, delivered_count |-> MaxCount],
      [courier_name |-> <<"b">>, zone_name |-> <<"n">>,
       loaded_count |-> 0, delivered_count |-> -1] }

\* Request bodies of at most m records.
Batches(recs, m) == UNION { [1..n -> recs] : n \in 0..m }

\* Counts a create or update request can carry.
Counts == -1..MaxCount

\* DeliveryImport: loaded_count and delivered_count are Field(..., ge=0).
ValidDeliveryImport(r) == r.loaded_count >= 0 /\ r.delivered_count >= 0

\* DeliveryBase: ge=0 on both counts and delivered_not_more_than_loaded.
ValidDeliveryCreate(r) ==
    /\ r.loaded_count >= 0
    /\ r.delivered_count >= 0
    /\ r.delivered_count <= r.loaded_count

\* DeliveryUpdate: optional counts, Field(None, ge=0) each.
ValidDeliveryUpdate(u) ==
    /\ u.loaded_count.given => u.loaded_count.v >= 0
    /\ u.delivered_count.given => u.delivered_count.v >= 0

\* record.courier_name.strip().lower()
MatchKey(name) == Lower(Strip(name))

\* ---------------------------------------------------------------- state
VARIABLES
    shipments,        \* table shipments: the shipment numbers stored
    delivery_events,  \* table delivery_events: rows stored per shipment number
    couriers,         \* table couriers: rows [id, name] (name is full_name)
    zones,            \* table zones: rows [id, name]
    deliveries,       \* table deliveries: one row per (courier_id, zone_id)
    imports,          \* table imports: the history rows, oldest first
    nextId,           \* next identifier the store generates
    pc,               \* position of the request in flight
    op,               \* the handler serving it
    input,            \* df of an upload / records of import_deliveries
    decoded,          \* an upload: one of the three readers produced df
    import_mode,      \* import_mode of import_deliveries
    idx,              \* next row of the row loop (1-based)
    records,          \* records mapped so far / deliveries_to_upsert
    errors,           \* error list of the handler
    skipped,          \* skipped counter of the handler
    imported,         \* imported counter of import_deliveries
    courier_map,      \* dict lowercased courier name -> id, as [key, id] pairs
    zone_map,         \* dict lowercased zone name -> id, as [key, id] pairs
    new_couriers,     \* list(new_couriers_dict.values()), the names
    new_zones,        \* the names of new_zones_set, in iteration order
    ci,               \* offset i of the chunk loop
    result,           \* what the handler returned or raised
    calls,            \* requests started so far
    used,             \* rows and records submitted so far
    visited,          \* history: row positions the loop body ran for
    written,          \* history: records the store accepted from this request
    failedChunks,     \* history: chunk offsets whose persistence call failed
    submitted,        \* history: chunk offsets handed to the store, in order
    resolver,         \* history: what the entity resolver fetched, sent, created
    prev,             \* history: the batch the next request repeats, if any
    router,           \* the APIRouter this behaviour's requests go to
    tried,            \* an upload: the reader calls made, in order, and which raised
    sentBatches,      \* history: the batches handed to the store, in order
    import_logs,      \* table import_logs: one row per bulk_import
    courier_performance, \* table courier_performance: rows [batch, n]
    pickup_orders,    \* table pickup_orders: rows [batch, n]
    batch_id,         \* batch_id of the bulk_import or delete_batch in flight
    rival,            \* a second import_deliveries call running beside the first
    facts,            \* what the store holds for the read-only handlers in flight
    request,          \* a read-only request: the handler and its parameters
    response          \* what the read-only handler returned

storeVars == <<shipments, delivery_events, couriers, zones, deliveries, imports, nextId>>
loopVars == <<idx, records, errors, skipped, imported, ci>>
mapVars == <<courier_map, zone_map, new_couriers, new_zones>>
callVars == <<pc, op, input, decoded, tried, import_mode, loopVars, mapVars, result>>
histVars == <<calls, used, visited, written, failedChunks, submitted, sentBatches, resolver, prev>>
bulkStore == <<import_logs, courier_performance, pickup_orders>>
bulkVars == <<bulkStore, batch_id>>
queryVars == <<facts, request, response>>
vars == <<storeVars, callVars, histVars, router, bulkVars, rival, queryVars>>

\* Shipment numbers a mapped record can carry.
ShipKeys == { <<"S">>, <<"T">> }

NoResult == [kind |-> "none"]

\* raise HTTPException(status_code=..)
HttpError(status) == [kind |-> "http_error", status |-> status]

\* errors[:10]
Capped(es) == SubSeq(es, 1, IF Len(es) < ERROR_CAP THEN Len(es) ELSE ERROR_CAP)

\* ImportResult(success=len(errors) == 0, ...)
ImportResult(total, imported_n, skipped_n, es) ==
    [kind |-> "result",
     success |-> (Len(es) = 0),
     total_records |-> total,
     imported_records |-> imported_n,
     skipped_records |-> skipped_n,
     errors |-> Capped(es)]

\* f"Row {index + 2}: ..." for the row at 1-based position k (index = k - 1).
RowError(k) == [kind |-> "row", n |-> k + 1]
BatchError(i) == [kind |-> "batch", n |-> i]
\* f"Row {i + 1}: Failed to map courier or zone" for position k (i = k - 1).
MapError(k) == [kind |-> "map", n |-> k]

\* Faulty slice records[i : i + BATCH_SIZE + 1]: it runs one record into the
\* next chunk.
ChunkOverlapping(recs, i) ==
    SubSeq(recs, i + 1, IF i + BATCH_SIZE + 1 < Len(recs) THEN i + BATCH_SIZE + 1 ELSE Len(recs))

\* records[i : i + BATCH_SIZE] for a 0-based offset i.
Chunk(recs, i) ==
    SubSeq(recs, i + 1, IF i + BATCH_SIZE < Len(recs) THEN i + BATCH_SIZE ELSE Len(recs))

\* upsert_data("shipments", batch): merge on the shipment number.
UpsertShipments(table, batch) ==
    table \cup { batch[j].shipment_number : j \in 1..Len(batch) }

\* insert_data("delivery_events", batch): every row of the batch is added.
InsertEvents(table, batch) ==
    [k \in ShipKeys |->
        table[k] + Cardinality({ j \in 1..Len(batch) : batch[j].shipment_number = k })]

\* The natural key of a delivery row.
SameKey(d, e) == d.courier_id = e.courier_id /\ d.zone_id = e.zone_id

\* upsert_data("deliveries", batch): merge-duplicates on the natural key; of
\* two batch rows with one key the later one stays.
UpsertDeliveries(table, batch) ==
    { d \in table : \A j \in 1..Len(batch) : ~SameKey(d, batch[j]) }
    \cup { batch[j] : j \in { j \in 1..Len(batch) :
                              \A l \in (j + 1)..Len(batch) : ~SameKey(batch[j], batch[l]) } }

NoResolver ==
    [fetched_couriers |-> {}, fetched_zones |-> {},
     sent_couriers |-> <<>>, sent_zones |-> <<>>,
     courier_inserts |-> 0, zone_inserts |-> 0,
     created |-> {}, rejected |-> {}]

NoPrev == [kind |-> "none"]

\* No second call is running.
NoRival == [pc |-> "none"]

\* No read-only request has been served.
NoFacts == [deliveries |-> <<>>, couriers |-> {}, zones |-> {}, performance |-> <<>>]
NoRequest == [op |-> "none"]
NoResponse == [kind |-> "none"]

\* What the tables hold, counted.
StoreCounts ==
    [shipments |-> Cardinality(shipments),
     delivery_events |-> delivery_events[<<"S">>] + delivery_events[<<"T">>],
     couriers |-> Cardinality(couriers),
     zones |-> Cardinality(zones),
     deliveries |-> Cardinality(deliveries)]

\* The state after construction: empty tables, no request in flight.
Constructed ==
    /\ shipments = {}
    /\ delivery_events = [k \in ShipKeys |-> 0]
    /\ couriers = {}
    /\ zones = {}
    /\ deliveries = {}
    /\ imports = <<>>
    /\ nextId = 1
    /\ pc = "idle"
    /\ op = "none"
    /\ input = <<>>
    /\ decoded = TRUE
    /\ import_mode = "append"
    /\ idx = 1
    /\ records = <<>>
    /\ errors = <<>>
    /\ skipped = 0
    /\ imported = 0
    /\ courier_map = {}
    /\ zone_map = {}
    /\ new_couriers = <<>>
    /\ new_zones = <<>>
    /\ ci = 0
    /\ result = NoResult
    /\ calls = 0
    /\ used = 0
    /\ visited = <<>>
    /\ written = 0
    /\ failedChunks = {}
    /\ submitted = <<>>
    /\ resolver = NoResolver
    /\ prev = NoPrev
    /\ tried = <<>>
    /\ sentBatches = <<>>
    /\ import_logs = {}
    /\ courier_performance = {}
    /\ pickup_orders = {}
    /\ batch_id = 0
    /\ rival = NoRival

Init ==
    /\ Constructed
    /\ router \in {"ingest", "deliveries", "bulk"}
    /\ facts = NoFacts
    /\ request = NoRequest
    /\ response = NoResponse

\* The router a handler is registered on.  The two routers share no table,
\* so a behaviour follows the requests of one of them.
RouterOf(handler) ==
    CASE handler \in {"import_shipments", "import_events"} -> "ingest"
      [] handler \in {"import_deliveries", "create_delivery", "update_delivery"} -> "deliveries"
      [] OTHER -> "bulk"

\* Requests one behaviour serves before a handler is entered: a batch is
\* deleted after it and another one were imported.
CallBudget(handler) ==
    IF handler \in {"courier_performance.delete_batch", "pickup_orders.delete_batch"}
    THEN MaxCalls + 1 ELSE MaxCalls

\* The locals of a handler as it is entered.
Enter(handler, data, mode, readable) ==
    /\ pc = "idle"
    /\ router = RouterOf(handler)
    /\ UNCHANGED router
    /\ calls < CallBudget(handler)
    /\ calls' = calls + 1
    /\ used' = used + Len(data)
    /\ op' = handler
    /\ input' = data
    /\ decoded' = readable
    /\ import_mode' = mode
    /\ idx' = 1
    /\ records' = <<>>
    /\ errors' = <<>>
    /\ skipped' = 0
    /\ imported' = 0
    /\ courier_map' = {}
    /\ zone_map' = {}
    /\ new_couriers' = <<>>
    /\ new_zones' = <<>>
    /\ ci' = 0
    /\ visited' = <<>>
    /\ written' = 0
    /\ failedChunks' = {}
    /\ submitted' = <<>>
    /\ sentBatches' = <<>>
    /\ resolver' = NoResolver

\* ---------------------------------------------------------------- uploads
\* The readers of the nested try blocks, in the order they are tried.
Readers == <<"read_excel", "read_csv utf-8", "read_csv cp1251">>

\* One call of a reader on the upload; can is the set of readers that parse it.
Attempt(can, j) == [reader |-> Readers[j], raised |-> Readers[j] \notin can]

\* Faulty nesting: the cp1251 fallback is tried before the utf-8 one.
RECURSIVE TryReadersLegacyFirst(_, _)
TryReadersLegacyFirst(can, j) ==
    LET order == <<1, 3, 2>> IN
    IF Readers[order[j]] \in can \/ j = Len(Readers) THEN <<Attempt(can, order[j])>>
    ELSE <<Attempt(can, order[j])>> \o TryReadersLegacyFirst(can, j + 1)

\* The nested try blocks from reader j on: a reader that raises hands over
\* to the next one.
RECURSIVE TryReaders(_, _)
TryReaders(can, j) ==
    IF Readers[j] \in can \/ j = Len(Readers) THEN <<Attempt(can, j)>>
    ELSE <<Attempt(can, j)>> \o TryReaders(can, j + 1)

\* Uploads of the main specification: a spreadsheet, or bytes no reader parses.
SpreadsheetOrGarbage == { {Readers[1]}, {} }

\* Entry of import_shipments / import_events: read and decode the upload.
\* When the last reader raises too, the outer except makes it a 500.
BeginUpload(handler, df, can) ==
    LET chain == TryReaders(can, 1)
        readable == ~chain[Len(chain)].raised
    IN /\ Enter(handler, df, "append", readable)
       /\ tried' = chain
       /\ IF readable
          THEN /\ pc' = IF Len(df) = 0 THEN "persist" ELSE "map"
               /\ result' = NoResult
          ELSE /\ pc' = "done"
               /\ result' = HttpError(500)
       /\ UNCHANGED <<storeVars, bulkVars, rival, queryVars>>

\* import_shipments is called with an upload that the readers of cans parse.
UploadShipments(cans) ==
    /\ pc = "idle"
    /\ router = "ingest"
    /\ prev = NoPrev
    /\ \E df \in Sheets(ShipmentRows, MaxRows - used), can \in cans :
          BeginUpload("import_shipments", df, can)
    /\ UNCHANGED prev

UploadEvents(cans) ==
    /\ pc = "idle"
    /\ router = "ingest"
    /\ prev = NoPrev
    /\ \E df \in Sheets(EventRows, MaxRows - used), can \in cans :
          BeginUpload("import_events", df, can)
    /\ UNCHANGED prev

StartShipments == UploadShipments(SpreadsheetOrGarbage)

StartEvents == UploadEvents(SpreadsheetOrGarbage)

\* Faulty loop body: the except clause is outside the loop, so the first row
\* that raises ends the iteration.
RowStepAbort(m, k) ==
    /\ visited' = Append(visited, k)
    /\ CASE m.tag = "skip" ->
              /\ skipped' = skipped + 1
              /\ UNCHANGED <<records, errors>>
         [] m.tag = "ok" ->
              /\ records' = Append(records, m.rec)
              /\ UNCHANGED <<skipped, errors>>
         [] OTHER ->
              /\ errors' = Append(errors, RowError(k))
              /\ skipped' = skipped + 1
              /\ UNCHANGED records
    /\ idx' = k + 1
    /\ pc' = IF k = Len(input) \/ m.tag = "error" THEN "persist" ELSE "map"

\* Faulty except clause: the row's error is recorded but the row is not
\* counted as skipped.
RowStepErrorsUncounted(m, k) ==
    /\ visited' = Append(visited, k)
    /\ CASE m.tag = "skip" ->
              /\ skipped' = skipped + 1
              /\ UNCHANGED <<records, errors>>
         [] m.tag = "ok" ->
              /\ records' = Append(records, m.rec)
              /\ UNCHANGED <<skipped, errors>>
         [] OTHER ->
              /\ errors' = Append(errors, RowError(k))
              /\ UNCHANGED <<records, skipped>>
    /\ idx' = k + 1
    /\ pc' = IF k = Len(input) THEN "persist" ELSE "map"

\* What the loop body does with one mapped row.
RowStep(m, k) ==
    /\ visited' = Append(visited, k)
    /\ CASE m.tag = "skip" ->
              /\ skipped' = skipped + 1
              /\ UNCHANGED <<records, errors>>
         [] m.tag = "ok" ->
              /\ records' = Append(records, m.rec)
              /\ UNCHANGED <<skipped, errors>>
         [] OTHER ->
              /\ errors' = Append(errors, RowError(k))
              /\ skipped' = skipped + 1
              /\ UNCHANGED records
    /\ idx' = k + 1
    /\ pc' = IF k = Len(input) THEN "persist" ELSE "map"

\* One iteration of `for index, row in df.iterrows()`.
MapRow ==
    /\ pc = "map"
    /\ op \in {"import_shipments", "import_events"}
    /\ idx <= Len(input)
    /\ RowStep(IF op = "import_shipments" THEN MapShipmentRow(input[idx])
               ELSE MapEventRow(input[idx]), idx)
    /\ UNCHANGED <<storeVars, op, input, decoded, tried, import_mode, imported, ci, mapVars, result>>
    /\ UNCHANGED <<calls, used, written, failedChunks, submitted, sentBatches, resolver, prev>>
    /\ UNCHANGED <<router, bulkVars, rival, queryVars>>

\* import_shipments: a failed upsert leaves the loop through the outer except.
ShipmentChunkFailed(i) ==
    /\ failedChunks' = failedChunks \cup {i}
    /\ result' = HttpError(500)
    /\ pc' = "done"
    /\ UNCHANGED <<ci, errors, shipments, written>>

\* One iteration of the chunk loop of import_shipments.
PersistShipmentChunk ==
    /\ pc = "persist"
    /\ op = "import_shipments"
    /\ ci < Len(records)
    /\ submitted' = Append(submitted, ci)
    /\ sentBatches' = Append(sentBatches, Chunk(records, ci))
    /\ \E stored \in BOOLEAN :
         IF stored
         THEN /\ shipments' = UpsertShipments(shipments, Chunk(records, ci))
              /\ written' = written + Len(Chunk(records, ci))
              /\ ci' = ci + BATCH_SIZE
              /\ UNCHANGED <<pc, result, errors, failedChunks>>
         ELSE ShipmentChunkFailed(ci)
    /\ UNCHANGED <<delivery_events, couriers, zones, deliveries, imports, nextId>>
    /\ UNCHANGED <<op, input, decoded, tried, import_mode, idx, records, skipped, imported, mapVars>>
    /\ UNCHANGED <<calls, used, visited, resolver, prev>>
    /\ UNCHANGED <<router, bulkVars, rival, queryVars>>

\* Faulty except clause: it also deletes the events of the shipment numbers
\* the request has handled so far, the stored chunks included.
EventChunkFailedRollback(i) ==
    /\ failedChunks' = failedChunks \cup {i}
    /\ errors' = Append(errors, BatchError(i))
    /\ ci' = i + BATCH_SIZE
    /\ delivery_events' =
         [k \in ShipKeys |->
            IF \E j \in 1..i : records[j].shipment_number = k
            THEN 0 ELSE delivery_events[k]]
    /\ UNCHANGED <<pc, result, written>>

\* import_events: the except clause around insert_data records a batch error.
EventChunkFailed(i) ==
    /\ failedChunks' = failedChunks \cup {i}
    /\ errors' = Append(errors, BatchError(i))
    /\ ci' = i + BATCH_SIZE
    /\ UNCHANGED <<pc, result, delivery_events, written>>

\* One iteration of the chunk loop of import_events.
PersistEventChunk ==
    /\ pc = "persist"
    /\ op = "import_events"
    /\ ci < Len(records)
    /\ submitted' = Append(submitted, ci)
    /\ sentBatches' = Append(sentBatches, Chunk(records, ci))
    /\ \E stored \in BOOLEAN :
         IF stored
         THEN /\ delivery_events' = InsertEvents(delivery_events, Chunk(records, ci))
              /\ written' = written + Len(Chunk(records, ci))
              /\ ci' = ci + BATCH_SIZE
              /\ UNCHANGED <<pc, result, errors, failedChunks>>
         ELSE EventChunkFailed(ci)
    /\ UNCHANGED <<shipments, couriers, zones, deliveries, imports, nextId>>
    /\ UNCHANGED <<op, input, decoded, tried, import_mode, idx, records, skipped, imported, mapVars>>
    /\ UNCHANGED <<calls, used, visited, resolver, prev>>
    /\ UNCHANGED <<router, bulkVars, rival, queryVars>>

\* return ImportResult(...) of import_shipments and import_events.
ReturnUpload ==
    /\ pc = "persist"
    /\ op \in {"import_shipments", "import_events"}
    /\ ci >= Len(records)
    /\ result' = ImportResult(Len(input), Len(records), skipped, errors)
    /\ pc' = "done"
    /\ UNCHANGED <<storeVars, op, input, decoded, tried, import_mode, loopVars, mapVars, histVars>>
    /\ UNCHANGED <<router, bulkVars, rival, queryVars>>

\* ---------------------------------------------------------------- resolver
\* dict.get(k): the id stored under k, or None (0; generated ids start at 1).
Get(map, k) ==
    IF \E e \in map : e.key = k THEN (CHOOSE e \in map : e.key = k).id ELSE 0

\* map[k] = v
Put(map, k, v) == { e \in map : e.key # k } \cup { [key |-> k, id |-> v] }

Keys(map) == { e.key : e \in map }

\* {row["name"].lower(): row["id"] for row in rows}: one entry per lowercased
\* name; of two rows with one key the one fetched last stays, and get_data
\* asks for no order.
IndexesOf(rows) ==
    LET ks == { Lower(r.name) : r \in rows }
        ids == { r.id : r \in rows }
    IN { { [key |-> k, id |-> f[k]] : k \in ks } :
           f \in { g \in [ks -> ids] :
                     \A k \in ks : \E r \in rows : r.id = g[k] /\ Lower(r.name) = k } }

\* The elements of a sequence, each once, in order of first occurrence.
RECURSIVE Dedup(_)
Dedup(s) ==
    IF s = <<>> THEN <<>>
    ELSE LET r == Dedup(SubSeq(s, 1, Len(s) - 1))
             x == s[Len(s)]
         IN IF \E i \in 1..Len(r) : r[i] = x THEN r ELSE Append(r, x)

\* list(new_couriers_dict.values()): one entry per missing key, in order of
\* first occurrence, holding the trimmed name of the last record with the key.
NewCouriers(recs, cmap) ==
    LET Missing(k) == k \notin Keys(cmap)
        all == [j \in 1..Len(recs) |-> MatchKey(recs[j].courier_name)]
        ks == Dedup(SelectSeq(all, Missing))
        last(k) == CHOOSE j \in 1..Len(recs) :
                      /\ all[j] = k
                      /\ \A l \in (j + 1)..Len(recs) : all[l] # k
    IN [i \in 1..Len(ks) |-> Strip(recs[last(ks[i])].courier_name)]

\* new_zones_set: the trimmed names whose lowercased form is not in zone_map.
NewZonesSet(recs, zmap) ==
    { Strip(recs[j].zone_name) :
        j \in { j \in 1..Len(recs) : MatchKey(recs[j].zone_name) \notin Keys(zmap) } }

\* The orders in which a Python set can be iterated.
Orderings(S) ==
    { q \in [1..Cardinality(S) -> S] :
        \A i, j \in 1..Cardinality(S) : q[i] = q[j] => i = j }

\* The rows insert_data returns for a list of names: ids in list order.
CreatedRows(names, first) ==
    [j \in 1..Len(names) |-> [id |-> first + j - 1, name |-> names[j]]]

\* for c in created: map[c["name"].lower()] = c["id"]
RECURSIVE PutAll(_, _)
PutAll(map, rows) ==
    IF rows = <<>> THEN map
    ELSE PutAll(Put(map, Lower(Head(rows).name), Head(rows).id), Tail(rows))

Range(q) == { q[j] : j \in 1..Len(q) }

\* Step 3 of import_deliveries from position k on: the rows to upsert, the
\* errors and the skipped count.
RECURSIVE PrepareFrom(_, _, _, _)
PrepareFrom(recs, cmap, zmap, k) ==
    IF k > Len(recs) THEN [to_upsert |-> <<>>, errors |-> <<>>, skipped |-> 0]
    ELSE LET rest == PrepareFrom(recs, cmap, zmap, k + 1)
             c_id == Get(cmap, MatchKey(recs[k].courier_name))
             z_id == Get(zmap, MatchKey(recs[k].zone_name))
         IN IF c_id # 0 /\ z_id # 0
            THEN [rest EXCEPT !.to_upsert =
                     <<[courier_id |-> c_id, zone_id |-> z_id,
                        loaded_count |-> recs[k].loaded_count,
                        delivered_count |-> recs[k].delivered_count]>> \o @]
            ELSE [rest EXCEPT !.errors = <<MapError(k)>> \o @,
                              !.skipped = @ + 1]

\* ---------------------------------------------------------------- import_deliveries
\* Entry of import_deliveries: body validation and the empty-body check.
BeginImport(recs, mode) ==
    /\ Enter("import_deliveries", recs, mode, TRUE)
    /\ IF \E j \in 1..Len(recs) : ~ValidDeliveryImport(recs[j])
       THEN /\ result' = HttpError(422)
            /\ pc' = "done"
       ELSE IF Len(recs) = 0
       THEN /\ result' = HttpError(400)
            /\ pc' = "done"
       ELSE /\ result' = NoResult
            /\ pc' = IF mode = "replace" THEN "replace" ELSE "fetch"
    /\ tried' = <<>>
    /\ UNCHANGED <<storeVars, bulkVars, rival, queryVars>>

StartImportDeliveries ==
    /\ pc = "idle"
    /\ router = "deliveries"
    /\ prev = NoPrev
    /\ \E recs \in Batches(DeliveryRecords, MaxRows - used), mode \in {"append", "replace"} :
          BeginImport(recs, mode)
    /\ UNCHANGED prev

\* rpc("delete_all_deliveries"); a failure is printed and the import goes on.
ReplaceDeliveries ==
    /\ pc = "replace"
    /\ \E cleared \in BOOLEAN :
          deliveries' = IF cleared THEN {} ELSE deliveries
    /\ pc' = "fetch"
    /\ UNCHANGED <<shipments, delivery_events, couriers, zones, imports, nextId>>
    /\ UNCHANGED <<op, input, decoded, tried, import_mode, loopVars, mapVars, result, histVars>>
    /\ UNCHANGED <<router, bulkVars, rival, queryVars>>

\* Both get_data calls and step 1: the indexes and the missing entities.
FetchEntities ==
    /\ pc = "fetch"
    /\ \/ /\ result' = HttpError(500)
          /\ pc' = "done"
          /\ UNCHANGED <<mapVars, resolver>>
       \/ \E cm \in IndexesOf(couriers), zm \in IndexesOf(zones) :
          \E zs \in Orderings(NewZonesSet(input, zm)) :
             /\ courier_map' = cm
             /\ zone_map' = zm
             /\ new_couriers' = NewCouriers(input, cm)
             /\ new_zones' = zs
             /\ resolver' = [resolver EXCEPT !.fetched_couriers = Keys(cm),
                                             !.fetched_zones = Keys(zm)]
             /\ pc' = "insert_couriers"
             /\ UNCHANGED result
    /\ UNCHANGED <<storeVars, op, input, decoded, tried, import_mode, loopVars>>
    /\ UNCHANGED <<calls, used, visited, written, failedChunks, submitted, sentBatches, prev>>
    /\ UNCHANGED <<router, bulkVars, rival, queryVars>>

\* A rejected insert_data of step 2 leaves the handler through its except
\* clauses: HTTPException with the store's status.
EntityInsertFailed(kind, status) ==
    /\ result' = HttpError(status)
    /\ pc' = "done"
    /\ resolver' =
         IF kind = "courier"
         THEN [resolver EXCEPT !.rejected = @ \cup {kind},
                               !.sent_couriers = new_couriers,
                               !.courier_inserts = @ + 1]
         ELSE [resolver EXCEPT !.rejected = @ \cup {kind},
                               !.sent_zones = new_zones,
                               !.zone_inserts = @ + 1]

Tagged(kind, rows) == { [kind |-> kind, id |-> r.id, name |-> r.name] : r \in Range(rows) }

\* Step 2, couriers: one insert_data call when new_couriers_dict is not empty.
InsertCouriers ==
    /\ pc = "insert_couriers"
    /\ IF new_couriers = <<>>
       THEN /\ pc' = "insert_zones"
            /\ UNCHANGED <<couriers, nextId, courier_map, result, resolver>>
       ELSE \/ /\ couriers' = couriers \cup Range(CreatedRows(new_couriers, nextId))
               /\ nextId' = nextId + Len(new_couriers)
               /\ courier_map' = PutAll(courier_map, CreatedRows(new_couriers, nextId))
               /\ resolver' =
                    [resolver EXCEPT
                       !.sent_couriers = new_couriers,
                       !.courier_inserts = @ + 1,
                       !.created = @ \cup Tagged("courier", CreatedRows(new_couriers, nextId))]
               /\ pc' = "insert_zones"
               /\ UNCHANGED result
            \/ /\ \E status \in {409, 500} : EntityInsertFailed("courier", status)
               /\ UNCHANGED <<couriers, nextId, courier_map>>
    /\ UNCHANGED <<shipments, delivery_events, zones, deliveries, imports>>
    /\ UNCHANGED <<op, input, decoded, tried, import_mode, loopVars, zone_map, new_couriers, new_zones>>
    /\ UNCHANGED <<calls, used, visited, written, failedChunks, submitted, sentBatches, prev>>
    /\ UNCHANGED <<router, bulkVars, rival, queryVars>>

\* Step 3 with the final maps: deliveries_to_upsert, errors, skipped.
Prepared(cmap, zmap) ==
    /\ records' = PrepareFrom(input, cmap, zmap, 1).to_upsert
    /\ errors' = PrepareFrom(input, cmap, zmap, 1).errors
    /\ skipped' = PrepareFrom(input, cmap, zmap, 1).skipped
    /\ visited' = [k \in 1..Len(input) |-> k]
    /\ pc' = "persist"

\* Step 2, zones, and step 3: no store call lies between them.
InsertZones ==
    /\ pc = "insert_zones"
    /\ IF new_zones = <<>>
       THEN /\ Prepared(courier_map, zone_map)
            /\ UNCHANGED <<zones, nextId, zone_map, result, resolver>>
       ELSE \/ /\ zones' = zones \cup Range(CreatedRows(new_zones, nextId))
               /\ nextId' = nextId + Len(new_zones)
               /\ zone_map' = PutAll(zone_map, CreatedRows(new_zones, nextId))
               /\ resolver' =
                    [resolver EXCEPT
                       !.sent_zones = new_zones,
                       !.zone_inserts = @ + 1,
                       !.created = @ \cup Tagged("zone", CreatedRows(new_zones, nextId))]
               /\ Prepared(courier_map, zone_map')
               /\ UNCHANGED result
            \/ /\ \E status \in {409, 500} : EntityInsertFailed("zone", status)
               /\ UNCHANGED <<zones, nextId, zone_map, records, errors, skipped, visited>>
    /\ UNCHANGED <<shipments, delivery_events, couriers, deliveries, imports>>
    /\ UNCHANGED <<op, input, decoded, tried, import_mode, idx, imported, ci, courier_map, new_couriers, new_zones>>
    /\ UNCHANGED <<calls, used, written, failedChunks, submitted, sentBatches, prev>>
    /\ UNCHANGED <<router, bulkVars, rival, queryVars>>

\* import_deliveries: a failed upsert leaves the handler through its except
\* clauses; nothing written before it is touched.
DeliveryChunkFailed(i) ==
    /\ failedChunks' = failedChunks \cup {i}
    /\ result' = HttpError(500)
    /\ pc' = "done"
    /\ UNCHANGED <<ci, errors, deliveries, written, imported>>

\* One iteration of the chunk loop of import_deliveries (step 4).
PersistDeliveryChunk ==
    /\ pc = "persist"
    /\ op = "import_deliveries"
    /\ ci < Len(records)
    /\ submitted' = Append(submitted, ci)
    /\ sentBatches' = Append(sentBatches, Chunk(records, ci))
    /\ \E stored \in BOOLEAN :
         IF stored
         THEN /\ deliveries' = UpsertDeliveries(deliveries, Chunk(records, ci))
              /\ imported' = imported + Len(Chunk(records, ci))
              /\ written' = written + Len(Chunk(records, ci))
              /\ ci' = ci + BATCH_SIZE
              /\ UNCHANGED <<pc, result, errors, failedChunks>>
         ELSE DeliveryChunkFailed(ci)
    /\ UNCHANGED <<shipments, delivery_events, couriers, zones, imports, nextId>>
    /\ UNCHANGED <<op, input, decoded, tried, import_mode, idx, records, skipped, mapVars>>
    /\ UNCHANGED <<calls, used, visited, resolver, prev>>
    /\ UNCHANGED <<router, bulkVars, rival, queryVars>>

\* Faulty history row: the status is partial whatever was recorded.
HistoryRowAlwaysPartial ==
    [records_count |-> imported,
     import_mode |-> import_mode,
     duplicates_skipped |-> skipped,
     status |-> "partial"]

\* The row import_deliveries writes to the imports table.
HistoryRow ==
    [records_count |-> imported,
     import_mode |-> import_mode,
     duplicates_skipped |-> skipped,
     status |-> IF Len(errors) = 0 THEN "completed" ELSE "partial"]

\* The history insert (its failure is printed and ignored) and the return.
ReturnImport ==
    /\ pc = "persist"
    /\ op = "import_deliveries"
    /\ ci >= Len(records)
    /\ \E logged \in BOOLEAN :
          imports' = IF logged THEN Append(imports, HistoryRow) ELSE imports
    /\ result' = ImportResult(Len(input), imported, skipped, errors)
    /\ pc' = "done"
    /\ UNCHANGED <<shipments, delivery_events, couriers, zones, deliveries, nextId>>
    /\ UNCHANGED <<op, input, decoded, tried, import_mode, loopVars, mapVars, histVars>>
    /\ UNCHANGED <<router, bulkVars, rival, queryVars>>

\* ---------------------------------------------------------------- a concurrent import
\* A second import_deliveries call (append mode) served while the first is in
\* flight: the event loop switches between the two at every await. Its
\* locals are the fields of rival.
RivalCall(recs) ==
    [pc |-> "fetch", input |-> recs,
     courier_map |-> {}, zone_map |-> {},
     new_couriers |-> <<>>, new_zones |-> <<>>,
     sent_couriers |-> <<>>, sent_zones |-> <<>>, accepted |-> {},
     records |-> <<>>, errors |-> <<>>, skipped |-> 0, imported |-> 0, ci |-> 0,
     result |-> NoResult]

RivalLeaves(res) == [rival EXCEPT !.pc = "done", !.result = res]

InFlight == op = "import_deliveries" /\ pc \notin {"idle", "done"}

\* Entry of the second call: body validation and the empty-body check.
RivalStart ==
    /\ rival = NoRival
    /\ InFlight
    /\ \E recs \in Batches(DeliveryRecords, MaxRivalRows) :
          rival' = IF \E j \in 1..Len(recs) : ~ValidDeliveryImport(recs[j])
                   THEN [RivalCall(recs) EXCEPT !.pc = "done", !.result = HttpError(422)]
                   ELSE IF Len(recs) = 0
                   THEN [RivalCall(recs) EXCEPT !.pc = "done", !.result = HttpError(400)]
                   ELSE RivalCall(recs)
    /\ UNCHANGED <<storeVars, callVars, histVars, router, bulkVars, queryVars>>

\* Both get_data calls and step 1 of the second call.
RivalFetch ==
    /\ rival.pc = "fetch"
    /\ \/ rival' = RivalLeaves(HttpError(500))
       \/ \E cm \in IndexesOf(couriers), zm \in IndexesOf(zones) :
          \E zs \in Orderings(NewZonesSet(rival.input, zm)) :
             rival' = [rival EXCEPT !.pc = "insert_couriers",
                                    !.courier_map = cm,
                                    !.zone_map = zm,
                                    !.new_couriers = NewCouriers(rival.input, cm),
                                    !.new_zones = zs]
    /\ UNCHANGED <<storeVars, callVars, histVars, router, bulkVars, queryVars>>

\* Faulty step 2: the second call looks the names up again and sends only
\* those the store still lacks.
RivalInsertCouriersRechecked ==
    /\ rival.pc = "insert_couriers"
    /\ LET Lacking(n) == \A c \in couriers : Lower(c.name) # Lower(n)
           names == SelectSeq(rival.new_couriers, Lacking)
       IN IF names = <<>>
          THEN /\ rival' = [rival EXCEPT !.pc = "insert_zones"]
               /\ UNCHANGED <<couriers, nextId>>
          ELSE \/ /\ couriers' = couriers \cup Range(CreatedRows(names, nextId))
                  /\ nextId' = nextId + Len(names)
                  /\ rival' = [rival EXCEPT
                                 !.pc = "insert_zones",
                                 !.courier_map = PutAll(@, CreatedRows(names, nextId)),
                                 !.sent_couriers = names,
                                 !.accepted = @ \cup {"courier"}]
               \/ /\ \E status \in {409, 500} :
                        rival' = [RivalLeaves(HttpError(status)) EXCEPT !.sent_couriers = names]
                  /\ UNCHANGED <<couriers, nextId>>
    /\ UNCHANGED <<shipments, delivery_events, zones, deliveries, imports>>
    /\ UNCHANGED <<callVars, histVars, router, bulkVars, queryVars>>

\* Step 2, couriers, of the second call: the names found missing at the
\* fetch are sent as they are; the store accepts or rejects the insert.
RivalInsertCouriers ==
    /\ rival.pc = "insert_couriers"
    /\ IF rival.new_couriers = <<>>
       THEN /\ rival' = [rival EXCEPT !.pc = "insert_zones"]
            /\ UNCHANGED <<couriers, nextId>>
       ELSE \/ /\ couriers' = couriers \cup Range(CreatedRows(rival.new_couriers, nextId))
               /\ nextId' = nextId + Len(rival.new_couriers)
               /\ rival' = [rival EXCEPT
                              !.pc = "insert_zones",
                              !.courier_map = PutAll(@, CreatedRows(rival.new_couriers, nextId)),
                              !.sent_couriers = rival.new_couriers,
                              !.accepted = @ \cup {"courier"}]
            \/ /\ \E status \in {409, 500} :
                     rival' = [RivalLeaves(HttpError(status)) EXCEPT
                                 !.sent_couriers = rival.new_couriers]
               /\ UNCHANGED <<couriers, nextId>>
    /\ UNCHANGED <<shipments, delivery_events, zones, deliveries, imports>>
    /\ UNCHANGED <<callVars, histVars, router, bulkVars, queryVars>>

\* Step 3 of the second call with its final maps.
RivalPrepared(r) ==
    LET p == PrepareFrom(r.input, r.courier_map, r.zone_map, 1)
    IN [r EXCEPT !.pc = "persist", !.records = p.to_upsert,
                 !.errors = p.errors, !.skipped = p.skipped]

\* Step 2, zones, and step 3 of the second call.
RivalInsertZones ==
    /\ rival.pc = "insert_zones"
    /\ IF rival.new_zones = <<>>
       THEN /\ rival' = RivalPrepared(rival)
            /\ UNCHANGED <<zones, nextId>>
       ELSE \/ /\ zones' = zones \cup Range(CreatedRows(rival.new_zones, nextId))
               /\ nextId' = nextId + Len(rival.new_zones)
               /\ rival' = RivalPrepared(
                              [rival EXCEPT
                                 !.zone_map = PutAll(@, CreatedRows(rival.new_zones, nextId)),
                                 !.sent_zones = rival.new_zones,
                                 !.accepted = @ \cup {"zone"}])
            \/ /\ \E status \in {409, 500} :
                     rival' = [RivalLeaves(HttpError(status)) EXCEPT
                                 !.sent_zones = rival.new_zones]
               /\ UNCHANGED <<zones, nextId>>
    /\ UNCHANGED <<shipments, delivery_events, couriers, deliveries, imports>>
    /\ UNCHANGED <<callVars, histVars, router, bulkVars, queryVars>>

\* One iteration of the chunk loop of the second call (step 4).
RivalPersistChunk ==
    /\ rival.pc = "persist"
    /\ rival.ci < Len(rival.records)
    /\ \/ /\ deliveries' = UpsertDeliveries(deliveries, Chunk(rival.records, rival.ci))
          /\ rival' = [rival EXCEPT
                         !.imported = @ + Len(Chunk(rival.records, rival.ci)),
                         !.ci = @ + BATCH_SIZE]
       \/ /\ rival' = RivalLeaves(HttpError(500))
          /\ UNCHANGED deliveries
    /\ UNCHANGED <<shipments, delivery_events, couriers, zones, imports, nextId>>
    /\ UNCHANGED <<callVars, histVars, router, bulkVars, queryVars>>

\* The history insert and the return of the second call.
RivalReturn ==
    /\ rival.pc = "persist"
    /\ rival.ci >= Len(rival.records)
    /\ \E logged \in BOOLEAN :
          imports' =
             IF logged
             THEN Append(imports,
                         [records_count |-> rival.imported,
                          import_mode |-> "append",
                          duplicates_skipped |-> rival.skipped,
                          status |-> IF Len(rival.errors) = 0 THEN "completed" ELSE "partial"])
             ELSE imports
    /\ rival' = RivalLeaves(ImportResult(Len(rival.input), rival.imported,
                                         rival.skipped, rival.errors))
    /\ UNCHANGED <<shipments, delivery_events, couriers, zones, deliveries, nextId>>
    /\ UNCHANGED <<callVars, histVars, router, bulkVars, queryVars>>

\* ---------------------------------------------------------------- deliveries
\* create_delivery: DeliveryCreate validates the body, then one insert_data.
CreateDelivery ==
    /\ pc = "idle"
    /\ router = "deliveries"
    /\ prev = NoPrev
    /\ used < MaxRows
    /\ \E c \in couriers, z \in zones, l \in Counts, d \in Counts :
         LET body == [courier_id |-> c.id, zone_id |-> z.id,
                      loaded_count |-> l, delivered_count |-> d]
         IN /\ Enter("create_delivery", <<body>>, "append", TRUE)
            /\ IF ~ValidDeliveryCreate(body)
               THEN /\ result' = HttpError(422)
                    /\ UNCHANGED deliveries
               ELSE IF \E e \in deliveries : SameKey(e, body)
               THEN /\ result' = HttpError(409)
                    /\ UNCHANGED deliveries
               ELSE \/ /\ deliveries' = deliveries \cup {body}
                       /\ result' = [kind |-> "row"]
                    \/ /\ result' = HttpError(500)
                       /\ UNCHANGED deliveries
    /\ pc' = "done"
    /\ tried' = <<>>
    /\ UNCHANGED <<shipments, delivery_events, couriers, zones, imports, nextId, prev>>
    /\ UNCHANGED <<bulkVars, rival, queryVars>>

\* An optional field of DeliveryUpdate: unset, or set to a count.
Optional(S) == { [given |-> FALSE, v |-> 0] } \cup { [given |-> TRUE, v |-> n] : n \in S }

\* The row update_data leaves: the fields of model_dump(exclude_unset=True)
\* replace the stored ones.
Patched(row, u) ==
    [row EXCEPT
       !.loaded_count = IF u.loaded_count.given THEN u.loaded_count.v ELSE @,
       !.delivered_count = IF u.delivered_count.given THEN u.delivered_count.v ELSE @]

\* update_delivery of a stored delivery: DeliveryUpdate validates the body,
\* an empty body is a 400, then one update_data.
UpdateDelivery ==
    /\ pc = "idle"
    /\ router = "deliveries"
    /\ prev = NoPrev
    /\ used < MaxRows
    /\ \E row \in deliveries, lc \in Optional(Counts), dc \in Optional(Counts) :
         LET u == [loaded_count |-> lc, delivered_count |-> dc]
         IN /\ Enter("update_delivery", <<u>>, "append", TRUE)
            /\ IF ~ValidDeliveryUpdate(u)
               THEN /\ result' = HttpError(422)
                    /\ UNCHANGED deliveries
               ELSE IF ~lc.given /\ ~dc.given
               THEN /\ result' = HttpError(400)
                    /\ UNCHANGED deliveries
               ELSE \/ /\ deliveries' = (deliveries \ {row}) \cup {Patched(row, u)}
                       /\ result' = [kind |-> "row"]
                    \/ /\ result' = HttpError(500)
                       /\ UNCHANGED deliveries
    /\ pc' = "done"
    /\ tried' = <<>>
    /\ UNCHANGED <<shipments, delivery_events, couriers, zones, imports, nextId, prev>>
    /\ UNCHANGED <<bulkVars, rival, queryVars>>

\* ---------------------------------------------------------------- bulk routers
\* The courier_performance and pickup_orders routers hold the same
\* bulk_import and delete_batch, each on its own table.
BulkTables == {"courier_performance", "pickup_orders"}

\* The handlers, by the module they live in.
BulkImportOp(t) ==
    IF t = "courier_performance" THEN "courier_performance.bulk_import"
    ELSE "pickup_orders.bulk_import"
DeleteBatchOp(t) ==
    IF t = "courier_performance" THEN "courier_performance.delete_batch"
    ELSE "pickup_orders.delete_batch"
BulkImportOps == { BulkImportOp(t) : t \in BulkTables }
DeleteBatchOps == { DeleteBatchOp(t) : t \in BulkTables }

\* The table a bulk handler works on.
TableOf(handler) ==
    IF handler \in {BulkImportOp("courier_performance"), DeleteBatchOp("courier_performance")}
    THEN "courier_performance" ELSE "pickup_orders"

\* FileType.DELIVERY.value / FileType.PICKUP.value
FileTypeOf(t) == IF t = "courier_performance" THEN "delivery" ELSE "pickup"

\* from_(table).insert(rows).execute(): the rows are added.
InsertRows(table, rows) == table \cup Range(rows)

\* from_(table).delete().eq("import_batch_id", b).execute()
DeleteEq(table, b) == { r \in table : r.import_batch_id # b }

\* from_("import_logs").update(fields).eq("id", b).execute()
UpdateLogEq(logs, b, fields) ==
    { IF l.id = b
      THEN [l EXCEPT !.records_imported = fields.records_imported,
                     !.records_failed = fields.records_failed,
                     !.status = fields.status,
                     !.errors = fields.errors]
      ELSE l : l \in logs }

\* Faulty status: the log is closed as completed whatever happened.
LogStatusAlwaysCompleted(es) == "completed"

\* ImportStatus.COMPLETED.value if not errors else ImportStatus.FAILED.value
LogStatus(es) == IF es = <<>> THEN "completed" ELSE "failed"

\* Faulty log fields: every submitted record is counted as imported.
LogUpdateCountsSubmitted(imported_n, es) ==
    [records_imported |-> Len(input),
     records_failed |-> Len(es),
     status |-> LogStatus(es),
     errors |-> es]

\* The fields bulk_import writes to its import log.
LogUpdate(imported_n, es) ==
    [records_imported |-> imported_n,
     records_failed |-> Len(es),
     status |-> LogStatus(es),
     errors |-> es]

\* ImportSummary(...): the error list is returned whole.
ImportSummary(b, total, imported_n, es) ==
    [kind |-> "summary",
     batch_id |-> b,
     total_records |-> total,
     imported |-> imported_n,
     failed |-> Len(es),
     status |-> LogStatus(es),
     errors |-> es]

\* f"Row {i+1}: ..." for position k (i = k - 1).
BulkRowError(k) == [kind |-> "row", n |-> k]
BulkInsertError == [kind |-> "bulk", n |-> 0]

\* Entry of bulk_import: batch_id = uuid4() and the import log insert, which
\* nothing catches.
StartBulkImport ==
    /\ pc = "idle"
    /\ router = "bulk"
    /\ \E t \in BulkTables, n \in 0..(MaxRows - used), logged \in BOOLEAN :
          /\ Enter(BulkImportOp(t), [j \in 1..n |-> j], "append", TRUE)
          /\ batch_id' = nextId
          /\ nextId' = nextId + 1
          /\ IF logged
             THEN /\ import_logs' = import_logs \cup
                       { [id |-> nextId, file_type |-> FileTypeOf(t),
                          records_count |-> n, status |-> "processing",
                          records_imported |-> 0, records_failed |-> 0,
                          errors |-> <<>>] }
                  /\ pc' = "prepare"
                  /\ result' = NoResult
             ELSE /\ pc' = "done"
                  /\ result' = HttpError(500)
                  /\ UNCHANGED import_logs
    /\ tried' = <<>>
    /\ UNCHANGED <<shipments, delivery_events, couriers, zones, deliveries, imports>>
    /\ UNCHANGED <<courier_performance, pickup_orders, prev, rival, queryVars>>

\* The rows of 1..n outside raised, in order, as records of batch b.
RECURSIVE Dumped(_, _, _, _)
Dumped(n, raised, b, k) ==
    IF k > n THEN <<>>
    ELSE (IF k \in raised THEN <<>> ELSE <<[import_batch_id |-> b, n |-> k]>>)
         \o Dumped(n, raised, b, k + 1)

\* The row errors of the positions in raised, in order.
RECURSIVE DumpErrors(_, _, _)
DumpErrors(n, raised, k) ==
    IF k > n THEN <<>>
    ELSE (IF k \in raised THEN <<BulkRowError(k)>> ELSE <<>>)
         \o DumpErrors(n, raised, k + 1)

\* The preparation loop: model_dump raises for the positions in raised.
PrepareBulk ==
    /\ pc = "prepare"
    /\ \E raised \in SUBSET (1..Len(input)) :
          /\ records' = Dumped(Len(input), raised, batch_id, 1)
          /\ errors' = DumpErrors(Len(input), raised, 1)
    /\ visited' = [k \in 1..Len(input) |-> k]
    /\ idx' = Len(input) + 1
    /\ pc' = "bulk_insert"
    /\ UNCHANGED <<storeVars, bulkVars, rival, queryVars, router>>
    /\ UNCHANGED <<op, input, decoded, tried, import_mode, skipped, imported, ci, mapVars, result>>
    /\ UNCHANGED <<calls, used, written, failedChunks, submitted, sentBatches, resolver, prev>>

\* The one insert of records_to_insert, inside its try.
BulkInsert ==
    /\ pc = "bulk_insert"
    /\ IF records = <<>>
       THEN UNCHANGED <<courier_performance, pickup_orders, imported, written,
                        errors, failedChunks, submitted, sentBatches>>
       ELSE /\ submitted' = Append(submitted, 0)
            /\ sentBatches' = Append(sentBatches, records)
            /\ \E stored \in BOOLEAN :
                 IF stored
                 THEN /\ courier_performance' =
                           IF TableOf(op) = "courier_performance"
                           THEN InsertRows(courier_performance, records)
                           ELSE courier_performance
                      /\ pickup_orders' =
                           IF TableOf(op) = "pickup_orders"
                           THEN InsertRows(pickup_orders, records)
                           ELSE pickup_orders
                      /\ imported' = Len(records)
                      /\ written' = Len(records)
                      /\ UNCHANGED <<errors, failedChunks>>
                 ELSE /\ errors' = Append(errors, BulkInsertError)
                      /\ failedChunks' = {0}
                      /\ UNCHANGED <<courier_performance, pickup_orders, imported, written>>
    /\ pc' = "log_update"
    /\ UNCHANGED <<storeVars, import_logs, batch_id, rival, queryVars, router>>
    /\ UNCHANGED <<op, input, decoded, tried, import_mode, idx, records, skipped, ci, mapVars, result>>
    /\ UNCHANGED <<calls, used, visited, resolver, prev>>

\* The import log update, which nothing catches, and the return.
UpdateLog ==
    /\ pc = "log_update"
    /\ \E updated \in BOOLEAN :
          IF updated
          THEN /\ import_logs' = UpdateLogEq(import_logs, batch_id, LogUpdate(imported, errors))
               /\ result' = ImportSummary(batch_id, Len(input), imported, errors)
          ELSE /\ result' = HttpError(500)
               /\ UNCHANGED import_logs
    /\ pc' = "done"
    /\ UNCHANGED <<storeVars, courier_performance, pickup_orders, batch_id, rival, queryVars, router>>
    /\ UNCHANGED <<op, input, decoded, tried, import_mode, loopVars, mapVars, histVars>>

\* Faulty delete_batch: the filter is missing and the table is emptied.
DeleteBatchUnfiltered ==
    /\ pc = "idle"
    /\ router = "bulk"
    /\ used < MaxRows
    /\ \E t \in BulkTables, b \in 0..(nextId - 1), deleted \in BOOLEAN :
          /\ Enter(DeleteBatchOp(t), <<b>>, "append", TRUE)
          /\ batch_id' = b
          /\ IF deleted
             THEN /\ courier_performance' =
                       IF t = "courier_performance" THEN {} ELSE courier_performance
                  /\ pickup_orders' =
                       IF t = "pickup_orders" THEN {} ELSE pickup_orders
                  /\ result' = [kind |-> "no_content"]
             ELSE /\ result' = HttpError(500)
                  /\ UNCHANGED <<courier_performance, pickup_orders>>
    /\ pc' = "done"
    /\ tried' = <<>>
    /\ UNCHANGED <<storeVars, import_logs, prev, rival, queryVars>>

\* delete_batch(batch_id): one filtered delete, which nothing catches.
DeleteBatch ==
    /\ pc = "idle"
    /\ router = "bulk"
    /\ used < MaxRows
    /\ \E t \in BulkTables, b \in 0..(nextId - 1), deleted \in BOOLEAN :
          /\ Enter(DeleteBatchOp(t), <<b>>, "append", TRUE)
          /\ batch_id' = b
          /\ IF deleted
             THEN /\ courier_performance' =
                       IF t = "courier_performance"
                       THEN DeleteEq(courier_performance, b) ELSE courier_performance
                  /\ pickup_orders' =
                       IF t = "pickup_orders"
                       THEN DeleteEq(pickup_orders, b) ELSE pickup_orders
                  /\ result' = [kind |-> "no_content"]
             ELSE /\ result' = HttpError(500)
                  /\ UNCHANGED <<courier_performance, pickup_orders>>
    /\ pc' = "done"
    /\ tried' = <<>>
    /\ UNCHANGED <<storeVars, import_logs, prev, rival, queryVars>>

\* ---------------------------------------------------------------- requests
\* The same body is sent again to the handler that imported it.
StartReimport ==
    /\ pc = "idle"
    /\ prev # NoPrev
    /\ Enter(prev.op, prev.input, prev.mode, TRUE)
    /\ pc' = CASE prev.op = "import_deliveries" ->
                    (IF prev.mode = "replace" THEN "replace" ELSE "fetch")
               [] Len(prev.input) = 0 -> "persist"
               [] OTHER -> "map"
    /\ result' = NoResult
    /\ tried' = prev.tried
    /\ UNCHANGED <<storeVars, prev, bulkVars, rival, queryVars>>

\* The response is sent and the handler's locals are gone; the server takes
\* the next request.  A batch that was imported without error may be the
\* body of the next request.
Finish ==
    /\ pc = "done"
    /\ pc' = "idle"
    /\ op' = "none"
    /\ input' = <<>>
    /\ decoded' = TRUE
    /\ import_mode' = "append"
    /\ idx' = 1
    /\ records' = <<>>
    /\ errors' = <<>>
    /\ skipped' = 0
    /\ imported' = 0
    /\ courier_map' = {}
    /\ zone_map' = {}
    /\ new_couriers' = <<>>
    /\ new_zones' = <<>>
    /\ ci' = 0
    /\ result' = NoResult
    /\ visited' = <<>>
    /\ written' = 0
    /\ failedChunks' = {}
    /\ submitted' = <<>>
    /\ sentBatches' = <<>>
    /\ tried' = <<>>
    /\ batch_id' = 0
    /\ resolver' = NoResolver
    /\ \/ prev' = NoPrev
       \/ /\ prev = NoPrev
          /\ calls < MaxCalls
          /\ used + Len(input) <= MaxRows
          /\ op \in {"import_shipments", "import_events", "import_deliveries"}
          /\ result.kind = "result"
          /\ result.success
          /\ prev' = [kind |-> "batch", op |-> op, input |-> input,
                      mode |-> import_mode, tried |-> tried, counts |-> StoreCounts]
    /\ UNCHANGED <<storeVars, calls, used>>
    /\ UNCHANGED <<router, bulkStore, rival, queryVars>>

Next ==
    \/ StartShipments
    \/ StartEvents
    \/ StartImportDeliveries
    \/ StartReimport
    \/ MapRow
    \/ PersistShipmentChunk
    \/ PersistEventChunk
    \/ ReturnUpload
    \/ ReplaceDeliveries
    \/ FetchEntities
    \/ InsertCouriers
    \/ InsertZones
    \/ PersistDeliveryChunk
    \/ ReturnImport
    \/ CreateDelivery
    \/ UpdateDelivery
    \/ StartBulkImport
    \/ PrepareBulk
    \/ BulkInsert
    \/ UpdateLog
    \/ DeleteBatch
    \/ Finish

Spec == Init /\ [][Next]_vars

\* The upload handlers alone, called with any bytes: each reader on its own
\* may or may not parse them.
AnyUpload == SUBSET { Readers[j] : j \in 1..Len(Readers) }

DecodeShipments == UploadShipments(AnyUpload)

DecodeEvents == UploadEvents(AnyUpload)

InitDecode == Init /\ router = "ingest"

NextDecode ==
    \/ DecodeShipments
    \/ DecodeEvents
    \/ MapRow
    \/ PersistShipmentChunk
    \/ PersistEventChunk
    \/ ReturnUpload
    \/ Finish

SpecDecode == InitDecode /\ [][NextDecode]_vars

\* The field parsers applied to the cells of a decoded sheet.
ParserOps == {"parse_float", "parse_date", "parse_time"}

CallParseFloat ==
    /\ \E v \in CellValues :
          /\ request' = [op |-> "parse_float", value |-> v]
          /\ response' = ParseFloatCall(v)
    /\ UNCHANGED <<storeVars, callVars, histVars, router, bulkVars, rival, facts>>

CallParseDate ==
    /\ \E v \in CellValues :
          /\ request' = [op |-> "parse_date", value |-> v]
          /\ response' = ParseDateCall(v)
    /\ UNCHANGED <<storeVars, callVars, histVars, router, bulkVars, rival, facts>>

CallParseTime ==
    /\ \E v \in CellValues :
          /\ request' = [op |-> "parse_time", value |-> v]
          /\ response' = ParseTimeCall(v)
    /\ UNCHANGED <<storeVars, callVars, histVars, router, bulkVars, rival, facts>>

InitParse == Init /\ router = "ingest"

NextParse ==
    \/ CallParseFloat
    \/ CallParseDate
    \/ CallParseTime

SpecParse == InitParse /\ [][NextParse]_vars

\* import_deliveries served to two clients at once.
InitRace == Init /\ router = "deliveries"

\* The first of the two calls: import_deliveries in append mode.
StartRacingImport ==
    /\ pc = "idle"
    /\ router = "deliveries"
    /\ calls = 0
    /\ \E recs \in Batches(DeliveryRecords, MaxRacingRows) :
          BeginImport(recs, "append")
    /\ UNCHANGED prev

NextRace ==
    \/ StartRacingImport
    \/ FetchEntities
    \/ InsertCouriers
    \/ InsertZones
    \/ PersistDeliveryChunk
    \/ ReturnImport
    \/ Finish
    \/ RivalStart
    \/ RivalFetch
    \/ RivalInsertCouriers
    \/ RivalInsertZones
    \/ RivalPersistChunk
    \/ RivalReturn

SpecRace == InitRace /\ [][NextRace]_vars

\* ---------------------------------------------------------------- claims
ImportOps == {"import_shipments", "import_events", "import_deliveries"}
UploadOps == {"import_shipments", "import_events"}

\* The offsets range(0, len(recs), BATCH_SIZE) visits.
ChunkOffsets(recs) == { i \in 0..(Len(recs) - 1) : i % BATCH_SIZE = 0 }

\* The mapper of the upload handler in flight, applied to row k of its sheet.
Mapped(k) ==
    IF op = "import_shipments" THEN MapShipmentRow(input[k]) ELSE MapEventRow(input[k])

\* C1: in every import entry point, once the persistence call of a chunk has
\* failed the request still ends with an import summary that lists a batch
\* error for that chunk, and every chunk of the valid records was submitted.
C1_ChunkFailureIsReported ==
    (pc = "done" /\ op \in ImportOps /\ failedChunks # {}) =>
        /\ result.kind = "result"
        /\ \A i \in failedChunks : BatchError(i) \in Range(result.errors)
        /\ Range(submitted) = ChunkOffsets(records)

\* C2: a step of an import request that has already written records removes
\* no stored record: the shipments, the delivery events and the delivery
\* keys stored before the step are stored after it, also in the step where
\* a later chunk fails.
NothingRemoved ==
    /\ shipments \subseteq shipments'
    /\ \A k \in ShipKeys : delivery_events[k] <= delivery_events'[k]
    /\ \A d \in deliveries : \E e \in deliveries' : SameKey(d, e)

C2_EarlierChunksStay ==
    [][(op \in ImportOps /\ written > 0) => NothingRemoved]_vars

\* C2 witness: a chunk failed after an earlier chunk of the same request
\* had been stored.
C2_Witness ==
    /\ op \in ImportOps
    /\ written > 0
    /\ \E i \in failedChunks : i > 0

\* C3: the counts of a returned import summary are exact: imported_records
\* is the number of records the store accepted from the request and
\* total_records is the number of submitted rows.
C3_CountsExact ==
    (pc = "done" /\ op \in ImportOps /\ result.kind = "result") =>
        /\ result.imported_records = written
        /\ result.total_records = Len(input)

\* C4: every stored delivery has delivered_count <= loaded_count.
C4_DeliveredWithinLoaded ==
    \A d \in deliveries : d.delivered_count <= d.loaded_count

\* C5: when a batch that was imported without error is imported again and
\* the request returns a summary, every table holds as many rows as after
\* the first import.
C5_ReimportKeepsCounts ==
    (pc = "done" /\ prev # NoPrev /\ result.kind = "result") =>
        StoreCounts = prev.counts

\* Entities of one kind this request created under a match key.
CreatedUnder(kind, key) ==
    { c \in resolver.created : c.kind = kind /\ MatchKey(c.name) = key }

\* C6: in import_deliveries two records whose courier names, or zone names,
\* have the same trimmed lowercased form lead to at most one created entity
\* and their deliveries reference the same id.
C6_VariantsShareOneEntity ==
    (op = "import_deliveries" /\ pc = "persist") =>
        \A i, j \in 1..Len(input) :
            /\ MatchKey(input[i].courier_name) = MatchKey(input[j].courier_name) =>
                  /\ Cardinality(CreatedUnder("courier", MatchKey(input[i].courier_name))) <= 1
                  /\ Len(records) = Len(input) => records[i].courier_id = records[j].courier_id
            /\ MatchKey(input[i].zone_name) = MatchKey(input[j].zone_name) =>
                  /\ Cardinality(CreatedUnder("zone", MatchKey(input[i].zone_name))) <= 1
                  /\ Len(records) = Len(input) => records[i].zone_id = records[j].zone_id

\* Rows of a table that this request did not create.
StoredBefore(kind, table) ==
    { r \in table : [kind |-> kind, id |-> r.id, name |-> r.name] \notin resolver.created }

\* What C7 asks of one kind: the names sent are one per referenced match key
\* absent from the fetched index, none of them matches a row the table held
\* before, and at most one insert call was made.
CreatesExactlyMissing(kind, referenced, fetched, sent, inserts, table) ==
    /\ { MatchKey(n) : n \in Range(sent) } = referenced \ fetched
    /\ Len(sent) = Cardinality(referenced \ fetched)
    /\ \A n \in Range(sent) :
          \A r \in StoredBefore(kind, table) : MatchKey(r.name) # MatchKey(n)
    /\ inserts <= 1

\* C7: the resolver of import_deliveries creates exactly the missing
\* couriers and zones, with at most one insert call per kind.
C7_CreatesExactlyMissing ==
    (op = "import_deliveries" /\ pc = "persist") =>
        /\ CreatesExactlyMissing("courier",
              { MatchKey(input[k].courier_name) : k \in 1..Len(input) },
              resolver.fetched_couriers, resolver.sent_couriers,
              resolver.courier_inserts, couriers)
        /\ CreatesExactlyMissing("zone",
              { MatchKey(input[k].zone_name) : k \in 1..Len(input) },
              resolver.fetched_zones, resolver.sent_zones,
              resolver.zone_inserts, zones)

\* C8: when the create step of import_deliveries is rejected, the request
\* still returns a summary and every record whose names resolve is stored.
C8_RejectedCreateSkipsOnlyDependents ==
    (op = "import_deliveries" /\ pc = "done" /\ resolver.rejected # {}) =>
        /\ result.kind = "result"
        /\ written = Cardinality({ k \in 1..Len(input) :
                        /\ Get(courier_map, MatchKey(input[k].courier_name)) # 0
                        /\ Get(zone_map, MatchKey(input[k].zone_name)) # 0 })

\* C9: in import_shipments and import_events the row loop runs for every
\* row of the sheet in order, whichever rows raise, and a row is in the
\* error list exactly when its mapping raised.
C9_EveryRowIsVisited ==
    (op \in UploadOps /\ decoded) =>
        /\ pc = "map" => visited = [k \in 1..(idx - 1) |-> k]
        /\ pc \in {"persist", "done"} => visited = [k \in 1..Len(input) |-> k]
        /\ \A k \in Range(visited) :
              (Mapped(k).tag = "error") <=> (RowError(k) \in Range(errors))

\* C9 witness: the loop has ended, a row raised and a later row was mapped
\* to a record.
C9_Witness ==
    /\ op \in UploadOps
    /\ pc = "persist"
    /\ \E k, l \in 1..Len(input) :
          /\ k < l
          /\ RowError(k) \in Range(errors)
          /\ Mapped(l).tag = "ok"
          /\ l \in Range(visited)

\* A shipment number that is empty or the literal "nan" after trimming.
EmptyOrNan(row) ==
    LET t == Strip(PyStr(row.num)) IN t = <<>> \/ t = <<"n", "a", "n">>

\* The two-row upload of C10: "SH100" (here S) in a valid row 1, no
\* shipment number in row 2.
TwoRowUpload ==
    /\ op \in UploadOps
    /\ Len(input) = 2
    /\ input[1].num = Txt(<<"S">>)
    /\ input[1].aux = IF op = "import_shipments" THEN Txt(<<"1">>) ELSE Txt(<<"d">>)
    /\ IsMissing(input[2].num)

RowErrors == { j \in 1..Len(errors) : errors[j].kind = "row" }

\* C10: a row without a usable shipment number adds one to skipped, adds no
\* error string and no record; the two-row upload, when no store call
\* fails, returns imported 1, skipped 1, no errors and success.
C10_KeylessRowIsASkip ==
    (op \in UploadOps /\ decoded) =>
        /\ \A k \in Range(visited) :
              EmptyOrNan(input[k]) => RowError(k) \notin Range(errors)
        /\ skipped = Cardinality({ k \in Range(visited) : EmptyOrNan(input[k]) })
                     + Cardinality(RowErrors)
        /\ Len(records) = Len(visited) - skipped
        /\ written <= Len(records)
        /\ (TwoRowUpload /\ pc = "done" /\ result.kind = "result" /\ failedChunks = {}) =>
              /\ result.imported_records = 1
              /\ result.skipped_records = 1
              /\ result.errors = <<>>
              /\ result.success

\* C10 witness: the two-row upload has returned its summary.
C10_Witness ==
    /\ TwoRowUpload
    /\ decoded
    /\ pc = "done"
    /\ result.kind = "result"
    /\ failedChunks = {}

\* Every entry point that returns an import summary.
SummaryOps == ImportOps \cup BulkImportOps

\* The call in flight has returned its summary.
Returned == pc = "done" /\ op \in SummaryOps /\ result.kind \in {"result", "summary"}

\* C11: the error list of a returned import summary has at most ERROR_CAP
\* entries and they are the first errors of the call, in the order they
\* occurred.
C11_ErrorListIsCapped ==
    Returned =>
        /\ Len(result.errors) <= ERROR_CAP
        /\ Len(result.errors) = (IF Len(errors) < ERROR_CAP THEN Len(errors) ELSE ERROR_CAP)
        /\ \A j \in 1..Len(result.errors) : result.errors[j] = errors[j]

\* The 1-based positions of the data rows the call in flight failed on.
FailedRows ==
    CASE op \in UploadOps ->
           { k \in Range(visited) : Mapped(k).tag = "error" }
      [] op \in BulkImportOps ->
           { k \in 1..Len(input) : \A j \in 1..Len(records) : records[j].n # k }
      [] OTHER ->
           { k \in 1..Len(input) :
               \/ Get(courier_map, MatchKey(input[k].courier_name)) = 0
               \/ Get(zone_map, MatchKey(input[k].zone_name)) = 0 }

\* The row numbers the row-level errors of the call in flight carry.
RowTags == { errors[j].n : j \in { j \in 1..Len(errors) : errors[j].kind \in {"row", "map"} } }

\* C12: in a returned import summary the row-level error of the data row
\* at position k carries row number k + 1.
C12_RowErrorsCountTheHeader ==
    Returned => RowTags = { k + 1 : k \in FailedRows }

\* What one step may do to the import log l: it stays in the table; once
\* completed or failed it is left as it is; from processing it goes to
\* completed or failed only, and to failed exactly when the import had an
\* error.
LogMovesForward(l) ==
    \E m \in import_logs' :
       /\ m.id = l.id
       /\ l.status \in {"completed", "failed"} => m = l
       /\ m.status \in {"processing", "completed", "failed"}
       /\ (l.status = "processing" /\ m.status # "processing") =>
              /\ m.id = batch_id
              /\ (m.status = "failed") <=> (errors # <<>>)

\* C13: the import log of a bulk_import starts as processing, moves only
\* forward to completed or failed, never changes again, and is failed
\* exactly when a row-level or batch-level error occurred.
C13_LogStatusMovesForward ==
    [][/\ \A l \in import_logs : LogMovesForward(l)
       /\ \A m \in import_logs' :
             (\A l \in import_logs : l.id # m.id) => m.status = "processing"]_vars

\* C13 witness: a bulk_import has closed its log as failed beside a log
\* that was closed as completed.
C13_Witness ==
    /\ op \in BulkImportOps
    /\ pc = "done"
    /\ \E l, m \in import_logs :
          /\ l.id = batch_id
          /\ l.status = "failed"
          /\ m.status = "completed"

\* C14: every import log has records_imported + records_failed <=
\* records_count.
C14_LogCountsWithinSubmitted ==
    \A l \in import_logs : l.records_imported + l.records_failed <= l.records_count

\* C14 witness: a closed log counts imported records and failed rows.
C14_Witness ==
    \E l \in import_logs :
       /\ l.status = "failed"
       /\ l.records_imported > 0
       /\ l.records_failed > 0

\* The rows of a bulk table before and after a step.
BulkRows(t) == IF t = "courier_performance" THEN courier_performance ELSE pickup_orders
BulkRowsAfter(t) == IF t = "courier_performance" THEN courier_performance' ELSE pickup_orders'

\* C15: a delete_batch(b) that succeeds removes from its table exactly the
\* records whose import_batch_id is b: none of them remains, and the
\* records of every other batch and of the other table are as before.
C15_DeleteBatchRemovesItsRecords ==
    [][(pc = "idle" /\ pc' = "done" /\ op' \in DeleteBatchOps
        /\ result'.kind = "no_content") =>
          /\ \A r \in BulkRowsAfter(TableOf(op')) : r.import_batch_id # batch_id'
          /\ \A r \in BulkRows(TableOf(op')) :
                r.import_batch_id # batch_id' => r \in BulkRowsAfter(TableOf(op'))
          /\ BulkRowsAfter(TableOf(op')) \subseteq BulkRows(TableOf(op'))
          /\ \A t \in BulkTables \ {TableOf(op')} : BulkRowsAfter(t) = BulkRows(t)]_vars

\* C15 witness: the batch deleted had imported records, none is left, and
\* records of another batch are still in the table.
C15_Witness ==
    /\ op \in DeleteBatchOps
    /\ pc = "done"
    /\ result.kind = "no_content"
    /\ \E l \in import_logs :
          /\ l.id = batch_id
          /\ l.file_type = FileTypeOf(TableOf(op))
          /\ l.records_imported > 0
    /\ BulkRows(TableOf(op)) # {}
    /\ \A r \in BulkRows(TableOf(op)) : r.import_batch_id # batch_id

\* ---------------------------------------------------------------- aggregation
\* round((delivered / loaded * 100) if loaded > 0 else 0, 2), in hundredths
\* of a percent.
SuccessRate(delivered, loaded) ==
    IF loaded > 0 THEN (2 * delivered * 10000 + loaded) \div (2 * loaded) ELSE 0

\* sum(row[field] for row in rows)
RECURSIVE Total(_, _)
Total(rows, field) ==
    IF rows = {} THEN 0
    ELSE LET r == CHOOSE r \in rows : TRUE
         IN r[field] + Total(rows \ {r}, field)

\* get_deliveries: loaded count and success_rate of every item.
DeliveryRates ==
    { [loaded |-> d.loaded_count,
       rate |-> SuccessRate(d.delivered_count, d.loaded_count)] : d \in deliveries }

\* get_courier_stats / get_zone_stats: the totals of the deliveries grouped
\* by column by and the success_rate of each group.
GroupRates(by) ==
    { LET rows == { d \in deliveries : d[by] = g }
      IN [loaded |-> Total(rows, "loaded_count"),
          rate |-> SuccessRate(Total(rows, "delivered_count"), Total(rows, "loaded_count"))] :
      g \in { d[by] : d \in deliveries } }

\* C16: every success rate the engine computes from the stored deliveries,
\* per delivery, per courier and per zone, is between 0 and 100 and is 0
\* when the loaded total is 0.
C16_SuccessRateInRange ==
    \A s \in DeliveryRates \cup GroupRates("courier_id") \cup GroupRates("zone_id") :
       /\ 0 <= s.rate
       /\ s.rate <= 100 * 100
       /\ s.loaded = 0 => s.rate = 0

\* The batches handed to the persistence calls so far, laid end to end.
RECURSIVE Flatten(_)
Flatten(batches) ==
    IF batches = <<>> THEN <<>> ELSE Head(batches) \o Flatten(Tail(batches))

\* C17: the persistence calls of an import request are issued in chunk order,
\* each offset once; laid end to end the batches they carry are the valid
\* records in their original order, every batch has BATCH_SIZE records
\* except a shorter one that ends the records; and a request that returns
\* an import summary has submitted all of them.
C17_ChunksPartitionTheRecords ==
    op \in ImportOps =>
        LET sent == Flatten(sentBatches) IN
        /\ Len(submitted) = Len(sentBatches)
        /\ \A j \in 1..Len(submitted) : submitted[j] = (j - 1) * BATCH_SIZE
        /\ Len(sent) <= Len(records)
        /\ sent = SubSeq(records, 1, Len(sent))
        /\ \A j \in 1..Len(sentBatches) :
              \/ Len(sentBatches[j]) = BATCH_SIZE
              \/ /\ j = Len(sentBatches)
                 /\ Len(sentBatches[j]) \in 1..(BATCH_SIZE - 1)
                 /\ sent = records
        /\ (pc = "done" /\ result.kind = "result") => sent = records

C17_Witness ==
    /\ op \in ImportOps
    /\ pc = "done"
    /\ result.kind = "result"
    /\ Len(sentBatches) = 2
    /\ Len(sentBatches[2]) < BATCH_SIZE

\* C19: whenever an import_deliveries call in replace mode returns a result,
\* the deliveries in the store are exactly those of the imported batch; no
\* delivery from before the call remains.
C19_ReplaceLeavesOnlyTheBatch ==
    (pc = "done" /\ op = "import_deliveries" /\ import_mode = "replace"
       /\ result.kind = "result") =>
        deliveries = UpsertDeliveries({}, records)

\* C20: an upload is decoded by calling read_excel, then read_csv as utf-8,
\* then read_csv as cp1251, in this order; a reader is called only after
\* every earlier one raised, the first reader that parses the bytes is the
\* last one called, and when all three raise the call fails with a 500, no
\* row processed and nothing persisted.
C20_DecodersInOrder ==
    (op \in UploadOps) =>
        /\ Len(tried) \in 1..Len(Readers)
        /\ \A j \in 1..Len(tried) : tried[j].reader = Readers[j]
        /\ \A j \in 1..(Len(tried) - 1) : tried[j].raised
        /\ tried[Len(tried)].raised => Len(tried) = Len(Readers)
        /\ decoded = ~tried[Len(tried)].raised
        /\ ~decoded =>
              /\ pc = "done"
              /\ result = HttpError(500)
              /\ visited = <<>>
              /\ records = <<>>
              /\ sentBatches = <<>>
              /\ written = 0

C20_Witness ==
    /\ op \in UploadOps
    /\ Len(tried) = Len(Readers)
    /\ ~tried[Len(tried)].raised
    /\ pc = "done"
    /\ written > 0

C20_AllFailWitness ==
    /\ op \in UploadOps
    /\ Len(input) > 0
    /\ Len(tried) = Len(Readers)
    /\ \A j \in 1..Len(tried) : tried[j].raised

\* The stored rows of a table whose lowercased name is k.
Named(table, k) == { r \in table : Lower(r.name) = k }

LowerNames(names) == { Lower(names[j]) : j \in 1..Len(names) }

\* The first call is past its insert of the given kind, the store having
\* accepted it.
FirstPast(kind) ==
    /\ op = "import_deliveries"
    /\ kind \notin resolver.rejected
    /\ IF kind = "courier" THEN pc \in {"insert_zones", "persist"} ELSE pc = "persist"

\* The second call is past its insert of the given kind.
RivalPast(kind) ==
    /\ rival # NoRival
    /\ IF kind = "courier" THEN rival.pc \in {"insert_zones", "persist"}
       ELSE rival.pc = "persist"

\* C18: of two import_deliveries calls in flight together, each sends in its
\* bulk insert every courier and zone name it found missing at its own fetch,
\* whatever the other call has inserted since (no lock, no second look);
\* and when both inserts carried one name and the store accepted both, the
\* store holds two entities with that name.
C18_BothInsertTheSameName ==
    /\ FirstPast("courier") => resolver.sent_couriers = new_couriers
    /\ FirstPast("zone") => resolver.sent_zones = new_zones
    /\ RivalPast("courier") => rival.sent_couriers = rival.new_couriers
    /\ RivalPast("zone") => rival.sent_zones = rival.new_zones
    /\ (FirstPast("courier") /\ RivalPast("courier")) =>
          \A k \in LowerNames(new_couriers) \cap LowerNames(rival.new_couriers) :
             Cardinality(Named(couriers, k)) >= 2
    /\ (FirstPast("zone") /\ RivalPast("zone")) =>
          \A k \in LowerNames(new_zones) \cap LowerNames(rival.new_zones) :
             Cardinality(Named(zones, k)) >= 2

C18_Witness ==
    /\ FirstPast("courier")
    /\ RivalPast("courier")
    /\ \E k \in LowerNames(resolver.sent_couriers) \cap LowerNames(rival.sent_couriers) :
          Cardinality(Named(couriers, k)) = 2

C18_RejectedWitness ==
    /\ FirstPast("courier")
    /\ rival # NoRival
    /\ rival.result = HttpError(409)
    /\ LowerNames(resolver.sent_couriers) \cap LowerNames(rival.sent_couriers) # {}

\* C27: every import result of import_shipments, import_events and
\* import_deliveries accounts for every submitted row exactly once:
\* total_records = imported_records + skipped_records.
C27_EveryRowIsAccountedFor ==
    (pc = "done" /\ op \in ImportOps /\ result.kind = "result") =>
        result.total_records = result.imported_records + result.skipped_records

C27_Witness ==
    /\ pc = "done"
    /\ op \in UploadOps
    /\ result.kind = "result"
    /\ result.imported_records > 0
    /\ Len(errors) > 0
    /\ result.skipped_records > Len(errors)

\* C28: once a bulk_import call has ended, the import log it created is
\* completed or failed: no log is in status processing while no bulk_import
\* is in flight.
C28_NoLogLeftProcessing ==
    (pc \in {"idle", "done"}) => \A l \in import_logs : l.status # "processing"

\* The step of import_deliveries that follows the chunk loop.
ImportReturns ==
    op = "import_deliveries" /\ pc = "persist" /\ ci >= Len(records) /\ pc' = "done"

\* C29: in import_deliveries the history row is written only in the step
\* that returns the result, after every chunk was upserted (a call that
\* ends in an error writes none); its status is completed exactly when no
\* error was recorded and partial otherwise; and the returning step leaves
\* the deliveries alone and returns the same result whether or not the
\* history row was written.
C29_HistoryRowAfterAllChunks ==
    [][(op = "import_deliveries") =>
         /\ (imports' # imports) =>
               /\ ImportReturns
               /\ failedChunks = {}
               /\ Flatten(sentBatches) = records
               /\ Len(imports') = Len(imports) + 1
               /\ SubSeq(imports', 1, Len(imports)) = imports
               /\ imports'[Len(imports')].records_count = Len(records)
               /\ imports'[Len(imports')].status =
                     (IF errors = <<>> THEN "completed" ELSE "partial")
         /\ ImportReturns =>
               /\ deliveries' = deliveries
               /\ result' = ImportResult(Len(input), imported, skipped, errors)]_vars

C29_Witness ==
    /\ op = "import_deliveries"
    /\ pc = "done"
    /\ result.kind = "result"
    /\ Len(sentBatches) = 2
    /\ Len(imports) = 1
    /\ imports[1].status = "completed"

C29_UnloggedWitness ==
    /\ op = "import_deliveries"
    /\ pc = "done"
    /\ result.kind = "result"
    /\ written > 0
    /\ imports = <<>>

C29_AbortedWitness ==
    /\ op = "import_deliveries"
    /\ pc = "done"
    /\ result.kind = "http_error"
    /\ written > 0
    /\ imports = <<>>

\* Cells whose text no parser can use, with or without blanks around it.
Unusable == { Val("str", pre \o <<"a", "b", "c">> \o suf) :
                pre \in { <<>>, <<" ">> }, suf \in { <<>>, <<" ">> } }

Default(parser) == IF parser = "parse_float" THEN ZeroFloat ELSE NoneValue

\* C26: parse_float, parse_date and parse_time return a value for every
\* cell value and never raise; for a missing or empty cell and for a text
\* they cannot use the value is the default, 0.0 for parse_float and None
\* for parse_date and parse_time.
C26_ParsersAreTotal ==
    (request.op \in ParserOps) =>
        /\ ~response.raised
        /\ (IsNaOrEmpty(request.value) \/ request.value \in Unusable) =>
              response.value = Default(request.op)

C26_Witness ==
    /\ request.op = "parse_float"
    /\ request.value \in Unusable
    /\ response = Returns(ZeroFloat)

C26_FallbackWitness ==
    /\ request.op = "parse_date"
    /\ request.value.type = "time"
    /\ response = Returns(NoneValue)

\* ---------------------------------------------------------------- analytics
\* A date of the current year, and None for a parameter the caller left out.
Day(m, d) == [m |-> m, d |-> d]
NoDate == Day(0, 0)

\* date.today()
Today == Day(2, 10)

\* Order of dates, as the store compares a date column.
DateLE(a, b) == a.m < b.m \/ (a.m = b.m /\ a.d <= b.d)

\* date.isoformat(), the text the store also returns for a date column:
\* 'MM-DD' after the year, as character codes relative to '0' ('-' is -3).
isoformat(dt) ==
    <<dt.m \div 10, dt.m % 10, -3, dt.d \div 10, dt.d % 10>>

\* The text of a date column in the JSON the store returns: ISO, padded.
StoreDateText(dt) ==
    <<dt.m \div 10, dt.m % 10, -3, dt.d \div 10, dt.d % 10>>

\* a <= b for two str: the first differing character decides, a prefix is
\* smaller.
RECURSIVE StrLE(_, _)
StrLE(a, b) ==
    IF a = <<>> THEN TRUE
    ELSE IF b = <<>> THEN FALSE
    ELSE IF Head(a) # Head(b) THEN Head(a) < Head(b)
    ELSE StrLE(Tail(a), Tail(b))

StrLT(a, b) == a # b /\ StrLE(a, b)

\* get_default_date_range(): the first of the current month through today.
get_default_date_range == [start_date |-> [Today EXCEPT !.d = 1], end_date |-> Today]

\* if not start_date or not end_date: start_date, end_date = get_default_date_range()
Window(start_date, end_date) ==
    IF start_date = NoDate \/ end_date = NoDate
    THEN get_default_date_range
    ELSE [start_date |-> start_date, end_date |-> end_date]

\* The deliveries a behaviour's store can hold.
FactRows ==
    { [courier_id |-> 1, zone_id |-> 1, delivery_date |-> Day(2, 1),
       loaded_count |-> 2, delivered_count |-> 2],
      [courier_id |-> 1, zone_id |-> 2, delivery_date |-> Day(2, 9),
       loaded_count |-> 2, delivered_count |-> 1],
      [courier_id |-> 2, zone_id |-> 1, delivery_date |-> Day(2, 9),
       loaded_count |-> 2, delivered_count |-> 2],
      [courier_id |-> 2, zone_id |-> 2, delivery_date |-> Day(1, 10),
       loaded_count |-> 10, delivered_count |-> 5],
      [courier_id |-> 2, zone_id |-> 1, delivery_date |-> Day(1, 9),
       loaded_count |-> 1, delivered_count |-> 1],
      [courier_id |-> 3, zone_id |-> 3, delivery_date |-> Day(2, 10),
       loaded_count |-> 0, delivered_count |-> 0] }

\* The master records: courier 3 and zone 3 may have none.
MasterIds == { {1, 2}, {1, 2, 3} }
CourierRow(id) == [id |-> id, full_name |-> <<"c", id>>]
ZoneRow(id) == [id |-> id, name |-> <<"z", id>>]

\* Sequences of at most n different elements of S.
Arrangements(S, n) ==
    UNION { { q \in [1..k -> S] : \A i, j \in 1..k : q[i] = q[j] => i = j } : k \in 0..n }

\* Dates a caller passes as a bound, None included.
BoundDates == { NoDate, Day(1, 10), Day(2, 1), Day(2, 9) }

\* get_data("deliveries", {"and": "(delivery_date.gte.S,delivery_date.lte.E)"}):
\* the rows inside the bounds, in the store's order, dates as ISO text.
DeliveriesBetween(w) ==
    LET Inside(r) == DateLE(w.start_date, r.delivery_date) /\ DateLE(r.delivery_date, w.end_date)
        rows == SelectSeq(facts.deliveries, Inside)
    IN [j \in 1..Len(rows) |-> [rows[j] EXCEPT !.delivery_date = StoreDateText(@)]]

\* The smallest and the largest of the ISO dates of some rows.
Earliest(rows) ==
    CHOOSE t \in { rows[j].delivery_date : j \in 1..Len(rows) } :
       \A j \in 1..Len(rows) : StrLE(t, rows[j].delivery_date)
Latest(rows) ==
    CHOOSE t \in { rows[j].delivery_date : j \in 1..Len(rows) } :
       \A j \in 1..Len(rows) : StrLE(rows[j].delivery_date, t)

\* sum(row[field] for row in rows) for a list of rows
RECURSIVE SumOf(_, _)
SumOf(rows, field) ==
    IF rows = <<>> THEN 0 ELSE Head(rows)[field] + SumOf(Tail(rows), field)

\* The stats dict of get_courier_stats / get_zone_stats: one entry per key in
\* order of first occurrence.
Aggregated(rows, by) ==
    LET ids == Dedup([j \in 1..Len(rows) |-> rows[j][by]])
    IN [i \in 1..Len(ids) |->
          LET OfKey(r) == r[by] = ids[i]
              own == SelectSeq(rows, OfKey)
          IN [id |-> ids[i],
              total_deliveries |-> Len(own),
              total_loaded |-> SumOf(own, "loaded_count"),
              total_delivered |-> SumOf(own, "delivered_count"),
              success_rate |-> SuccessRate(SumOf(own, "delivered_count"),
                                           SumOf(own, "loaded_count")),
              first_delivery |-> Earliest(own),
              last_delivery |-> Latest(own)]]

\* Faulty sort: of two entries with one key the later one comes first.
RECURSIVE SortDescUnstable(_, _)
SortDescUnstable(q, field) ==
    IF q = <<>> THEN <<>>
    ELSE LET x == q[Len(q)]
             rest == SortDescUnstable(SubSeq(q, 1, Len(q) - 1), field)
             Before(e) == e[field] > x[field]
             NotBefore(e) == ~Before(e)
         IN SelectSeq(rest, Before) \o <<x>> \o SelectSeq(rest, NotBefore)

\* list.sort(key=lambda x: x[field], reverse=True): descending, and entries
\* with one key stay in their order.
RECURSIVE SortDesc(_, _)
SortDesc(q, field) ==
    IF q = <<>> THEN <<>>
    ELSE LET x == q[Len(q)]
             rest == SortDesc(SubSeq(q, 1, Len(q) - 1), field)
             Before(e) == e[field] >= x[field]
             NotBefore(e) == ~Before(e)
         IN SelectSeq(rest, Before) \o <<x>> \o SelectSeq(rest, NotBefore)

\* Faulty response filter of get_courier_stats: couriers without a master
\* record are listed too.
CourierStatsUnmatched(w, min_deliveries) ==
    LET Kept(e) == e.total_deliveries >= min_deliveries
    IN SortDesc(SelectSeq(Aggregated(DeliveriesBetween(w), "courier_id"), Kept), "success_rate")

\* The list get_courier_stats builds for window w.
CourierStats(w, min_deliveries) ==
    LET Kept(e) == /\ e.total_deliveries >= min_deliveries
                   /\ \E c \in facts.couriers : c.id = e.id
    IN SortDesc(SelectSeq(Aggregated(DeliveriesBetween(w), "courier_id"), Kept), "success_rate")

\* The list get_zone_stats builds for window w, sorted by total loaded.
ZoneStats(w) ==
    LET Kept(e) == \E z \in facts.zones : z.id = e.id
    IN SortDesc(SelectSeq(Aggregated(DeliveriesBetween(w), "zone_id"), Kept), "total_loaded")

ListOf(items) == [kind |-> "list", items |-> items]

\* A read-only handler is called with the given parameters, sends the store
\* the bounds in applied and answers res, or a store call raises on the way
\* and the handler ends in an error.  The handlers keep nothing between
\* requests, so a behaviour serves one.
Serve(handler, params, applied, res) ==
    /\ request' = [op |-> handler, params |-> params, applied |-> applied]
    /\ \/ response' = res
       \/ response' = HttpError(500)
    /\ UNCHANGED <<storeVars, callVars, histVars, router, bulkVars, rival, facts>>

\* get_courier_stats(start_date, end_date, min_deliveries)
GetCourierStats ==
    /\ router = "analytics"
    /\ request = NoRequest
    /\ \E s \in BoundDates, e \in BoundDates, n \in 0..MaxMinDeliveries :
          Serve("get_courier_stats",
                [start_date |-> s, end_date |-> e, min_deliveries |-> n],
                <<Window(s, e)>>, ListOf(CourierStats(Window(s, e), n)))

\* get_zone_stats(start_date, end_date)
GetZoneStats ==
    /\ router = "analytics"
    /\ request = NoRequest
    /\ \E s \in BoundDates, e \in BoundDates :
          Serve("get_zone_stats", [start_date |-> s, end_date |-> e], <<Window(s, e)>>,
                ListOf(ZoneStats(Window(s, e))))

\* The dates in S, ascending.
RECURSIVE SortedDates(_)
SortedDates(S) ==
    IF S = {} THEN <<>>
    ELSE LET least == CHOOSE a \in S : \A b \in S : DateLE(a, b)
         IN <<least>> \o SortedDates(S \ {least})

\* One row of the daily_stats view: the rollup of the deliveries of a date.
DailyRow(dt) ==
    LET OfDate(r) == r.delivery_date = dt
        own == SelectSeq(facts.deliveries, OfDate)
    IN [delivery_date |-> StoreDateText(dt),
        active_couriers |-> Cardinality({ own[j].courier_id : j \in 1..Len(own) }),
        total_loaded |-> SumOf(own, "loaded_count"),
        total_delivered |-> SumOf(own, "delivered_count"),
        success_rate |-> SuccessRate(SumOf(own, "delivered_count"), SumOf(own, "loaded_count"))]

\* get_data("daily_stats", {"delivery_date": "gte.S", "order": "delivery_date.asc"})
DailyStatsFrom(start_date) ==
    LET dates == SortedDates({ facts.deliveries[j].delivery_date : j \in 1..Len(facts.deliveries) })
        FromStart(dt) == DateLE(start_date, dt)
        kept == SelectSeq(dates, FromStart)
    IN [j \in 1..Len(kept) |-> DailyRow(kept[j])]

\* Faulty filter of get_daily_stats: the end date itself is left out.
DailyStatsEndExclusive(w) ==
    LET UpToEnd(d) == StrLT(d.delivery_date, isoformat(w.end_date))
    IN SelectSeq(DailyStatsFrom(w.start_date), UpToEnd)

\* The list get_daily_stats returns for window w: the rows the store sent,
\* kept when d["delivery_date"] <= end_date.isoformat().
DailyStats(w) ==
    LET UpToEnd(d) == StrLE(d.delivery_date, isoformat(w.end_date))
    IN SelectSeq(DailyStatsFrom(w.start_date), UpToEnd)

\* get_daily_stats(start_date, end_date)
GetDailyStats ==
    /\ router = "analytics"
    /\ request = NoRequest
    /\ \E s \in BoundDates, e \in BoundDates :
          Serve("get_daily_stats", [start_date |-> s, end_date |-> e], <<Window(s, e)>>,
                ListOf(DailyStats(Window(s, e))))

\* rpc("get_period_stats"): the totals of the deliveries inside the bounds.
PeriodStatsRpc(w) ==
    LET rows == DeliveriesBetween(w)
    IN <<[total_loaded |-> SumOf(rows, "loaded_count"),
          total_delivered |-> SumOf(rows, "delivered_count"),
          success_rate |-> SuccessRate(SumOf(rows, "delivered_count"), SumOf(rows, "loaded_count")),
          active_couriers |-> Cardinality({ rows[j].courier_id : j \in 1..Len(rows) }),
          delivery_days |-> Cardinality({ rows[j].delivery_date : j \in 1..Len(rows) })]>>

\* The PeriodStats get_period_summary builds from the rpc result.
PeriodSummary(w) ==
    LET data == PeriodStatsRpc(w) IN
    IF Len(data) > 0
    THEN [total_loaded |-> data[1].total_loaded,
          total_delivered |-> data[1].total_delivered,
          success_rate |-> data[1].success_rate,
          active_couriers |-> data[1].active_couriers,
          delivery_days |-> data[1].delivery_days,
          undelivered |-> data[1].total_loaded - data[1].total_delivered]
    ELSE [total_loaded |-> 0, total_delivered |-> 0, success_rate |-> 0,
          active_couriers |-> 0, delivery_days |-> 0, undelivered |-> 0]

\* get_period_summary(start_date, end_date)
GetPeriodSummary ==
    /\ router = "analytics"
    /\ request = NoRequest
    /\ \E s \in BoundDates, e \in BoundDates :
          Serve("get_period_summary", [start_date |-> s, end_date |-> e], <<Window(s, e)>>,
                [kind |-> "stats", stats |-> PeriodSummary(Window(s, e))])

\* seq[:n] for n >= 0 and, as Python slices do, seq[:len + n] for n < 0.
Slice(q, n) ==
    LET stop == IF n >= 0 THEN n ELSE Len(q) + n
    IN SubSeq(q, 1, IF stop < 0 THEN 0 ELSE IF stop > Len(q) THEN Len(q) ELSE stop)

\* rpc("get_top_couriers"): the couriers with deliveries inside the bounds
\* and a master record, best success rate first, at most limit_count.
TopCouriersRpc(w, limit_count) ==
    LET Known(e) == \E c \in facts.couriers : c.id = e.id
    IN Slice(SortDesc(SelectSeq(Aggregated(DeliveriesBetween(w), "courier_id"), Known),
                      "success_rate"), limit_count)

\* The list get_top_couriers returns: one TopCourier per row of the rpc.
TopCouriers(w, limit) ==
    LET ranked == TopCouriersRpc(w, limit)
    IN [j \in 1..Len(ranked) |->
          [courier_id |-> ranked[j].id,
           total_loaded |-> ranked[j].total_loaded,
           total_delivered |-> ranked[j].total_delivered,
           success_rate |-> ranked[j].success_rate]]

\* get_top_couriers(start_date, end_date, limit), limit validated ge=1, le=50
GetTopCouriers ==
    /\ router \in {"analytics", "ranking"}
    /\ request = NoRequest
    /\ \E s \in BoundDates, e \in BoundDates, limit \in 1..MaxLimit :
          Serve("get_top_couriers", [start_date |-> s, end_date |-> e, limit |-> limit],
                <<Window(s, e)>>,
                ListOf(TopCouriers(Window(s, e), limit)))

\* min(zone_stats, key=lambda z: z.success_rate): the first of the entries
\* with the smallest rate.
WorstZone(zone_stats) ==
    LET j == CHOOSE j \in 1..Len(zone_stats) :
               /\ \A l \in 1..Len(zone_stats) :
                     zone_stats[j].success_rate <= zone_stats[l].success_rate
               /\ \A l \in 1..(j - 1) :
                     zone_stats[l].success_rate > zone_stats[j].success_rate
    IN zone_stats[j]

\* Faulty insights: the undelivered count is reported before the period
\* rate.
InsightsUndeliveredFirst(period_stats, top_couriers, zone_stats) ==
    (IF top_couriers # <<>> THEN <<"top-courier">> ELSE <<>>)
    \o (IF zone_stats # <<>> /\ WorstZone(zone_stats).success_rate < 90 * 100
        THEN <<"worst-zone">> ELSE <<>>)
    \o (IF period_stats.undelivered > 0 THEN <<"undelivered-count">> ELSE <<>>)
    \o (IF period_stats.success_rate < 95 * 100 THEN <<"period-below-target">> ELSE <<>>)

\* The insights list of get_full_analytics; each text is named by its kind.
Insights(period_stats, top_couriers, zone_stats) ==
    (IF top_couriers # <<>> THEN <<"top-courier">> ELSE <<>>)
    \o (IF zone_stats # <<>> /\ WorstZone(zone_stats).success_rate < 90 * 100
        THEN <<"worst-zone">> ELSE <<>>)
    \o (IF period_stats.success_rate < 95 * 100 THEN <<"period-below-target">> ELSE <<>>)
    \o (IF period_stats.undelivered > 0 THEN <<"undelivered-count">> ELSE <<>>)

\* The AnalyticsSummary of get_full_analytics for window w; the four inner
\* handlers are called with both bounds set.
FullAnalytics(w) ==
    LET inner == Window(w.start_date, w.end_date)
        period_stats == PeriodSummary(inner)
        top_couriers == TopCouriers(inner, FullTopLimit)
        zone_stats == ZoneStats(inner)
    IN [kind |-> "analytics",
        period_stats |-> period_stats,
        daily_trend |-> DailyStats(inner),
        top_couriers |-> top_couriers,
        zone_stats |-> zone_stats,
        insights |-> Insights(period_stats, top_couriers, zone_stats)]

\* get_full_analytics(start_date, end_date)
GetFullAnalytics ==
    /\ router = "analytics"
    /\ request = NoRequest
    /\ \E s \in BoundDates, e \in BoundDates :
          Serve("get_full_analytics", [start_date |-> s, end_date |-> e], <<Window(s, e)>>,
                FullAnalytics(Window(s, e)))

\* round(num / den, 0) for den > 0, halves away from zero.
RoundDiv(num, den) ==
    IF num >= 0 THEN (2 * num + den) \div (2 * den)
    ELSE -((2 * (-num) + den) \div (2 * den))

\* Faulty calc_change: a zero baseline gives 0 whatever the new value is.
calc_change_zero(old, new) ==
    IF old = 0 THEN 0 ELSE RoundDiv((new - old) * 100 * 100, old)

\* calc_change(old, new) of compare_periods, in hundredths of a percent.
calc_change(old, new) ==
    IF old = 0 THEN (IF new > 0 THEN 100 * 100 ELSE 0)
    ELSE RoundDiv((new - old) * 100 * 100, old)

\* The periods a compare_periods caller passes.
Periods ==
    { [start_date |-> Day(1, 9), end_date |-> Day(1, 10)],
      [start_date |-> Day(2, 1), end_date |-> Day(2, 10)],
      [start_date |-> Day(2, 9), end_date |-> Day(2, 9)],
      [start_date |-> Day(1, 10), end_date |-> Day(2, 1)] }

\* The body compare_periods returns.
Comparison(p1, p2) ==
    LET stats1 == PeriodSummary(Window(p1.start_date, p1.end_date))
        stats2 == PeriodSummary(Window(p2.start_date, p2.end_date))
    IN [kind |-> "comparison",
        stats1 |-> stats1,
        stats2 |-> stats2,
        changes |->
          [loaded_change |-> calc_change(stats1.total_loaded, stats2.total_loaded),
           delivered_change |-> calc_change(stats1.total_delivered, stats2.total_delivered),
           success_rate_change |-> stats2.success_rate - stats1.success_rate,
           couriers_change |-> calc_change(stats1.active_couriers, stats2.active_couriers)]]

\* compare_periods(period1_start, period1_end, period2_start, period2_end)
ComparePeriods ==
    /\ router = "analytics"
    /\ request = NoRequest
    /\ \E p1 \in Periods, p2 \in Periods :
          Serve("compare_periods", [period1 |-> p1, period2 |-> p2], <<p1, p2>>,
                Comparison(p1, p2))

\* The read-only handlers of the analytics router over a store that holds
\* some deliveries.
InitAnalytics ==
    /\ Constructed
    /\ router = "analytics"
    /\ \E q \in Arrangements(FactRows, MaxFacts), ids \in MasterIds :
          facts = [deliveries |-> q,
                   couriers |-> { CourierRow(i) : i \in ids },
                   zones |-> { ZoneRow(i) : i \in ids },
                   performance |-> <<>>]
    /\ request = NoRequest
    /\ response = NoResponse

NextAnalytics ==
    \/ GetPeriodSummary
    \/ GetTopCouriers
    \/ GetDailyStats
    \/ GetCourierStats
    \/ GetZoneStats
    \/ GetFullAnalytics
    \/ ComparePeriods

SpecAnalytics == InitAnalytics /\ [][NextAnalytics]_vars

\* ---------------------------------------------------------------- claims about the analytics
\* The operations that take an optional window.
WindowedOps ==
    { "get_period_summary", "get_top_couriers", "get_daily_stats",
      "get_courier_stats", "get_zone_stats", "get_full_analytics" }

\* The positions of the stored deliveries dated inside window w.
InWindow(w) ==
    { j \in 1..Len(facts.deliveries) :
        /\ DateLE(w.start_date, facts.deliveries[j].delivery_date)
        /\ DateLE(facts.deliveries[j].delivery_date, w.end_date) }

\* The sum of a field over the stored deliveries at the positions in J.
RECURSIVE SumAt(_, _)
SumAt(J, field) ==
    IF J = {} THEN 0
    ELSE LET j == CHOOSE j \in J : TRUE
         IN facts.deliveries[j][field] + SumAt(J \ {j}, field)

\* C30: in every analytics operation that takes an optional window, the
\* default window, the first of the current month through today, is used
\* only when the window is omitted; a bound the caller supplied is the bound
\* sent to the store, also when only one of the two bounds is supplied.
C30_SuppliedBoundIsApplied ==
    request.op \in WindowedOps =>
       LET p == request.params
           w == request.applied[1]
       IN /\ p.start_date # NoDate => w.start_date = p.start_date
          /\ p.end_date # NoDate => w.end_date = p.end_date
          /\ w = get_default_date_range => (p.start_date = NoDate /\ p.end_date = NoDate)

\* C21: get_courier_stats returns one entry per courier that has a delivery
\* in the inclusive window, at least min_deliveries delivery rows there and a
\* master record, and no other entry; an entry's totals are the sums over
\* the courier's deliveries in the window, first and last delivery are the
\* earliest and the latest of their dates, and the list is sorted by success
\* rate, descending.
C21_CourierStatsPerCourier ==
    (request.op = "get_courier_stats" /\ response.kind = "list") =>
       LET w == request.applied[1]
           items == response.items
           Own(c) == { j \in InWindow(w) : facts.deliveries[j].courier_id = c }
           Listed == { c \in { facts.deliveries[j].courier_id : j \in InWindow(w) } :
                         /\ Cardinality(Own(c)) >= request.params.min_deliveries
                         /\ \E r \in facts.couriers : r.id = c }
       IN /\ { items[i].id : i \in 1..Len(items) } = Listed
          /\ Len(items) = Cardinality(Listed)
          /\ \A i \in 1..Len(items) :
                LET own == Own(items[i].id)
                IN /\ items[i].total_deliveries = Cardinality(own)
                   /\ items[i].total_loaded = SumAt(own, "loaded_count")
                   /\ items[i].total_delivered = SumAt(own, "delivered_count")
                   /\ \E a \in own, b \in own :
                         /\ items[i].first_delivery = StoreDateText(facts.deliveries[a].delivery_date)
                         /\ items[i].last_delivery = StoreDateText(facts.deliveries[b].delivery_date)
                         /\ \A j \in own :
                               /\ DateLE(facts.deliveries[a].delivery_date,
                                         facts.deliveries[j].delivery_date)
                               /\ DateLE(facts.deliveries[j].delivery_date,
                                         facts.deliveries[b].delivery_date)
          /\ \A i, j \in 1..Len(items) :
                i < j => items[i].success_rate >= items[j].success_rate

\* A courier with two deliveries on different dates is listed, and a courier
\* with a delivery in the window is left out.
C21_Witness ==
    /\ request.op = "get_courier_stats"
    /\ response.kind = "list"
    /\ request.params.min_deliveries >= 1
    /\ \E i \in 1..Len(response.items) :
          response.items[i].first_delivery # response.items[i].last_delivery
    /\ \E j \in InWindow(request.applied[1]) :
          \A i \in 1..Len(response.items) :
             response.items[i].id # facts.deliveries[j].courier_id

\* The sort moved a courier met later in the rows ahead of one met earlier.
C21_SortedWitness ==
    /\ request.op = "get_courier_stats"
    /\ response.kind = "list"
    /\ Len(response.items) = 2
    /\ response.items[1].success_rate > response.items[2].success_rate
    /\ \E a, b \in InWindow(request.applied[1]) :
          /\ a < b
          /\ facts.deliveries[a].courier_id = response.items[2].id
          /\ facts.deliveries[b].courier_id = response.items[1].id
          /\ \A j \in 1..(b - 1) : facts.deliveries[j].courier_id # response.items[1].id

\* C25: get_daily_stats returns exactly the rollup rows whose date d has
\* start_date <= d <= end_date, both ends included, in ascending order of
\* date.
C25_DailyStatsInsideTheWindow ==
    (request.op = "get_daily_stats" /\ response.kind = "list") =>
       LET w == request.applied[1]
           items == response.items
           dates == { facts.deliveries[j].delivery_date : j \in InWindow(w) }
       IN /\ Len(items) = Cardinality(dates)
          /\ \A d \in dates : \E i \in 1..Len(items) : items[i] = DailyRow(d)
          /\ \A i, j \in 1..Len(items) :
                i < j => \E a \in dates, b \in dates :
                            /\ items[i].delivery_date = StoreDateText(a)
                            /\ items[j].delivery_date = StoreDateText(b)
                            /\ a # b
                            /\ DateLE(a, b)

\* Two days are returned, the last of them the end date itself, and a
\* stored day outside the window is not.
C25_Witness ==
    /\ request.op = "get_daily_stats"
    /\ response.kind = "list"
    /\ Len(response.items) = 2
    /\ response.items[2].delivery_date = StoreDateText(request.applied[1].end_date)
    /\ \E j \in 1..Len(facts.deliveries) : j \notin InWindow(request.applied[1])

\* The kinds of insight in the order get_full_analytics reports them.
InsightOrder == <<"top-courier", "worst-zone", "period-below-target", "undelivered-count">>

\* The condition of an insight, read from the summary that carries it.
InsightDue(kind, summary) ==
    CASE kind = "top-courier" -> Len(summary.top_couriers) > 0
      [] kind = "worst-zone" ->
            /\ Len(summary.zone_stats) > 0
            /\ \E i \in 1..Len(summary.zone_stats) :
                  summary.zone_stats[i].success_rate < 90 * 100
      [] kind = "period-below-target" -> summary.period_stats.success_rate < 95 * 100
      [] kind = "undelivered-count" -> summary.period_stats.undelivered > 0

\* C22: the insights of get_full_analytics appear in the order top-courier,
\* worst-zone, period-below-target, undelivered-count; each is present, once,
\* exactly when its condition holds, and nothing stands in for an insight
\* that is left out.
C22_InsightsInFixedOrder ==
    (request.op = "get_full_analytics" /\ response.kind = "analytics") =>
       LET ins == response.insights
           Pos(kind) == CHOOSE k \in 1..Len(InsightOrder) : InsightOrder[k] = kind
       IN /\ \A i \in 1..Len(ins) : \E k \in 1..Len(InsightOrder) : ins[i] = InsightOrder[k]
          /\ \A k \in 1..Len(InsightOrder) :
                (\E i \in 1..Len(ins) : ins[i] = InsightOrder[k])
                   <=> InsightDue(InsightOrder[k], response)
          /\ \A i, j \in 1..Len(ins) : i < j => Pos(ins[i]) < Pos(ins[j])

\* All four insights are reported.
C22_Witness ==
    /\ request.op = "get_full_analytics"
    /\ response.kind = "analytics"
    /\ Len(response.insights) = 4

\* Only the top courier is reported: the other three are left out.
C22_OmittedWitness ==
    /\ request.op = "get_full_analytics"
    /\ response.kind = "analytics"
    /\ response.insights = <<"top-courier">>
    /\ Len(response.zone_stats) > 0

\* c is the change from old to new in hundredths of a percent: 100 % from
\* a zero baseline to a positive value, 0 % from zero to zero, and
\* (new - old) / old * 100 to two decimals otherwise.
IsChange(c, old, new) ==
    IF old = 0 THEN c = (IF new > 0 THEN 100 * 100 ELSE 0)
    ELSE LET exact == (new - old) * 100 * 100
             off == IF c * old >= exact THEN c * old - exact ELSE exact - c * old
         IN 2 * off <= old

\* C23: in compare_periods the loaded, delivered and active-courier changes
\* are 100 when the value of period 1 is 0 and that of period 2 is positive,
\* 0 when both are 0, and (new - old) / old * 100 otherwise, and
\* success_rate_change is the difference rate2 - rate1; for period 1 with
\* loaded 0, delivered 0 and period 2 with loaded 10, delivered 5 the
\* loaded change is 100 and the success-rate change is 50.
C23_ChangesBetweenPeriods ==
    (request.op = "compare_periods" /\ response.kind = "comparison") =>
       LET s1 == response.stats1
           s2 == response.stats2
           ch == response.changes
       IN /\ s1 = PeriodSummary(request.params.period1)
          /\ s2 = PeriodSummary(request.params.period2)
          /\ IsChange(ch.loaded_change, s1.total_loaded, s2.total_loaded)
          /\ IsChange(ch.delivered_change, s1.total_delivered, s2.total_delivered)
          /\ IsChange(ch.couriers_change, s1.active_couriers, s2.active_couriers)
          /\ ch.success_rate_change = s2.success_rate - s1.success_rate
          /\ (/\ s1.total_loaded = 0 /\ s1.total_delivered = 0
              /\ s2.total_loaded = 10 /\ s2.total_delivered = 5)
                => (ch.loaded_change = 100 * 100 /\ ch.success_rate_change = 50 * 100)

\* Period 1 has nothing loaded, period 2 has 10 loaded and 5 delivered.
C23_Witness ==
    /\ request.op = "compare_periods"
    /\ response.kind = "comparison"
    /\ response.stats1.total_loaded = 0
    /\ response.stats1.total_delivered = 0
    /\ response.stats2.total_loaded = 10
    /\ response.stats2.total_delivered = 5

\* Both periods have deliveries and the loaded count falls.
C23_RatioWitness ==
    /\ request.op = "compare_periods"
    /\ response.kind = "comparison"
    /\ response.stats1.total_loaded > response.stats2.total_loaded
    /\ response.stats2.total_loaded > 0
    /\ response.changes.loaded_change < 0

\* ---------------------------------------------------------------- ranking of couriers
\* The fixture: one row per courier 1..FixtureSize, dated inside the current
\* month, each with a success rate of 50 % or 100 %; courier 1 may have a
\* second row with the other rate, the last courier's row may be dated
\* before the month, and the store may hold the rows in reverse.
FixtureRow(i, full, day) ==
    [courier |-> i, date |-> day, loaded |-> 2, delivered |-> IF full THEN 2 ELSE 1]

Reverse(q) == [j \in 1..Len(q) |-> q[Len(q) + 1 - j]]

Fixture(full, extra, outside, reversed) ==
    LET base == [i \in 1..FixtureSize |->
                   FixtureRow(i, full[i],
                              IF i = FixtureSize /\ outside THEN Day(1, 10) ELSE Day(2, i))]
        rows == IF extra THEN Append(base, FixtureRow(1, ~full[1], Day(2, 2))) ELSE base
    IN IF reversed THEN Reverse(rows) ELSE rows

\* The fixture as rows of the deliveries table.
AsDeliveries(rows) ==
    [j \in 1..Len(rows) |->
       [courier_id |-> rows[j].courier, zone_id |-> 1, delivery_date |-> rows[j].date,
        loaded_count |-> rows[j].loaded, delivered_count |-> rows[j].delivered]]

\* The fixture as rows of the courier_performance table.
AsPerformance(rows) ==
    [j \in 1..Len(rows) |->
       [courier_name |-> rows[j].courier, report_date |-> rows[j].date,
        loaded_parcels |-> rows[j].loaded, delivered_parcels |-> rows[j].delivered,
        delivery_success_rate |-> SuccessRate(rows[j].delivered, rows[j].loaded)]]

\* query.gte("report_date", v) and query.lte("report_date", v)
Gte(rows, v) ==
    LET Kept(r) == DateLE(v, r.report_date) IN SelectSeq(rows, Kept)
Lte(rows, v) ==
    LET Kept(r) == DateLE(r.report_date, v) IN SelectSeq(rows, Kept)

\* The data of get_top_couriers: each filter is added when its bound is set.
PerformanceData(date_from, date_to) ==
    LET all == facts.performance
        lower == IF date_from # NoDate THEN Gte(all, date_from) ELSE all
    IN IF date_to # NoDate THEN Lte(lower, date_to) ELSE lower

\* The list get_top_couriers of the courier-performance router returns:
\* one entry per courier name in order of first occurrence, the average of
\* the rates of its records rounded to two decimals, sorted, cut to limit.
PerformanceTop(date_from, date_to, limit) ==
    LET data == PerformanceData(date_from, date_to)
        names == Dedup([j \in 1..Len(data) |-> data[j].courier_name])
        top_couriers ==
           [i \in 1..Len(names) |->
              LET OfName(r) == r.courier_name = names[i]
                  own == SelectSeq(data, OfName)
              IN [courier_name |-> names[i],
                  total_delivered |-> SumOf(own, "delivered_parcels"),
                  total_loaded |-> SumOf(own, "loaded_parcels"),
                  avg_success_rate |-> RoundDiv(SumOf(own, "delivery_success_rate"), Len(own))]]
    IN Slice(SortDesc(top_couriers, "avg_success_rate"), limit)

\* get_top_couriers(date_from, date_to, limit) of the courier-performance
\* router; limit is any int.
GetTopCouriersByPerformance ==
    /\ router = "ranking"
    /\ request = NoRequest
    /\ \E f \in {NoDate, Day(2, 1)}, t \in {NoDate, Day(2, 9)}, limit \in (-1)..MaxLimit :
          Serve("stats/top-couriers", [date_from |-> f, date_to |-> t, limit |-> limit],
                <<[start_date |-> f, end_date |-> t]>>,
                ListOf(PerformanceTop(f, t, limit)))

\* The two top-couriers handlers over a store that holds the fixture.
InitTop ==
    /\ Constructed
    /\ router = "ranking"
    /\ \E full \in [1..FixtureSize -> BOOLEAN], extra \in BOOLEAN,
          outside \in BOOLEAN, reversed \in BOOLEAN :
          LET rows == Fixture(full, extra, outside, reversed)
          IN facts = [deliveries |-> AsDeliveries(rows),
                      couriers |-> { CourierRow(i) : i \in 1..FixtureSize },
                      zones |-> { ZoneRow(1) },
                      performance |-> AsPerformance(rows)]
    /\ request = NoRequest
    /\ response = NoResponse

NextTop ==
    \/ GetTopCouriers
    \/ GetTopCouriersByPerformance

SpecTop == InitTop /\ [][NextTop]_vars

\* The stored rows, in the store's order, that a top-couriers request reads:
\* their courier and whether they lie inside the bounds the request applies.
Ranked ==
    LET w == request.applied[1]
        Inside(dt) == /\ w.start_date # NoDate => DateLE(w.start_date, dt)
                      /\ w.end_date # NoDate => DateLE(dt, w.end_date)
    IN IF request.op = "get_top_couriers"
       THEN [j \in 1..Len(facts.deliveries) |->
               [courier |-> facts.deliveries[j].courier_id,
                inside |-> Inside(facts.deliveries[j].delivery_date)]]
       ELSE [j \in 1..Len(facts.performance) |->
               [courier |-> facts.performance[j].courier_name,
                inside |-> Inside(facts.performance[j].report_date)]]

\* The entries of the list a top-couriers request returned, as courier and
\* success rate.
RankedEntries ==
    [i \in 1..Len(response.items) |->
       IF request.op = "get_top_couriers"
       THEN [courier |-> response.items[i].courier_id,
             rate |-> response.items[i].success_rate]
       ELSE [courier |-> response.items[i].courier_name,
             rate |-> response.items[i].avg_success_rate]]

\* C24: a top-couriers request with limit L returns min(L, number of
\* couriers with data in the window) entries, sorted by success rate,
\* descending, couriers with equal rates in the order of the input; with 5
\* couriers and limit 3 it returns exactly 3.
C24_TopCouriersCutAndSorted ==
    (/\ request.op \in {"get_top_couriers", "stats/top-couriers"}
     /\ response.kind = "list"
     /\ request.params.limit >= 0) =>
       LET L == request.params.limit
           entries == RankedEntries
           with_data == { Ranked[j].courier : j \in { k \in 1..Len(Ranked) : Ranked[k].inside } }
           First(c) == CHOOSE j \in 1..Len(Ranked) :
                          /\ Ranked[j].inside
                          /\ Ranked[j].courier = c
                          /\ \A k \in 1..(j - 1) : ~(Ranked[k].inside /\ Ranked[k].courier = c)
       IN /\ Len(entries) = (IF L < Cardinality(with_data) THEN L ELSE Cardinality(with_data))
          /\ \A i \in 1..Len(entries) : entries[i].courier \in with_data
          /\ \A i, j \in 1..Len(entries) :
                i < j => /\ entries[i].rate >= entries[j].rate
                         /\ entries[i].rate = entries[j].rate
                               => First(entries[i].courier) < First(entries[j].courier)
          /\ (Cardinality(with_data) = 5 /\ L = 3) => Len(entries) = 3

\* The ranking call over five couriers with limit 3 returns three entries,
\* two of them with one rate.
C24_Witness ==
    /\ request.op = "get_top_couriers"
    /\ response.kind = "list"
    /\ request.params.limit = 3
    /\ Cardinality({ facts.deliveries[j].courier_id :
                       j \in InWindow(request.applied[1]) }) = 5
    /\ Len(response.items) = 3
    /\ response.items[1].success_rate = response.items[2].success_rate
    /\ response.items[2].success_rate > response.items[3].success_rate

\* The courier-performance handler over five couriers with limit 3 returns
\* three entries, the first an average over two records.
C24_PerformanceWitness ==
    /\ request.op = "stats/top-couriers"
    /\ response.kind = "list"
    /\ request.params.limit = 3
    /\ Cardinality({ Ranked[j].courier : j \in { k \in 1..Len(Ranked) : Ranked[k].inside } }) = 5
    /\ Len(response.items) = 3
    /\ response.items[2].avg_success_rate = response.items[3].avg_success_rate
    /\ response.items[1].avg_success_rate > response.items[2].avg_success_rate

\* The limit is larger than the number of couriers with data.
C24_AllWitness ==
    /\ request.op = "stats/top-couriers"
    /\ response.kind = "list"
    /\ request.params.limit > Len(response.items)
    /\ Len(response.items) >= 2

====
